---- MODULE Spec2Model ----
(***************************************************************************)
(* Model of the OCI artifact mapping layer of yolocs/ocifactory            *)
(* (pkg/oci/registry.go): the Registry facade (AddFile, ReadFile,          *)
(* ListTags), its helpers (upsertFileLayer, manifestLayers,                *)
(* detectFileMediaType, loadFile) and the backend it talks to, which is    *)
(* modelled after the in-memory destination repository of the tests        *)
(* (pkg/oci/registry_test.go, inMemoryRepo).                               *)
(*                                                                         *)
(* Strings whose structure the code inspects (tags, filenames) are         *)
(* sequences of one-character strings; opaque strings (contents, digests,  *)
(* media types) are TLA+ strings.                                          *)
(***************************************************************************)
EXTENDS Integers, Sequences, FiniteSets, TLC

VARIABLES allTags, manifests, blobs, now, nops, last, appended,
          calls, returned, landed

vars == <<allTags, manifests, blobs, now, nops, last, appended,
          calls, returned, landed>>

----------------------------------------------------------------------------
(* Bounds of the model.                                                    *)

\* Number of facade calls in one behaviour.
MaxOps == 3

\* Last instant of the clock that PackManifest stamps manifests with.
MaxTime == 1

----------------------------------------------------------------------------
(* Strings.                                                                *)

EmptyStr == <<>>

HasPrefix(s, p) == Len(s) >= Len(p) /\ SubSeq(s, 1, Len(p)) = p

\* The tag namespace prefix that keeps reference aliases apart from versions.
RefPrefix == <<"r", "e", "f", "_">>

TagV0 == <<"v", "0">>

TagV1 == <<"v", "1">>

RefTag1 == <<"t", "a", "g", "1">>

RefTag2 == <<"t", "a", "g", "2">>

NameTestTxt == <<"t", "e", "s", "t", ".", "t", "x", "t">>

NameTestBin == <<"t", "e", "s", "t", ".", "b", "i", "n">>

FileNameAnnotation == "ocifactory.file.title"

AnnotationTitle == "org.opencontainers.image.title"

DefaultArtifactType == "application/vnd.ocifactory.generic"

----------------------------------------------------------------------------
(* Inputs the operations are called with.                                  *)

Repos == {"foobar"}

\* A second repository of the same registry, and all of them.
OtherRepo == "barbaz"

AllRepos == Repos \cup {OtherRepo}

CanonicalTags == {TagV0, TagV1}

RefNames == {RefTag1}

\* A caller may hand AddFile any string as the owning tag, a ref_ one included.
OwningTags == CanonicalTags \cup {RefPrefix \o r : r \in RefNames}

Names == {NameTestTxt, NameTestBin}

\* The (name, media type) pairs files are written with: "" leaves the media
\* type to the detector.
NamedFiles ==
    {<<NameTestTxt, "">>, <<NameTestTxt, "application/custom">>, <<NameTestBin, "">>}

Contents == {"hello world", "HELLO"}

\* sha256 over the bytes, as the OCI file store computes it in fs.Add.
SHA256(bytes) ==
    CASE bytes = "hello world" ->
             "sha256:b94d27b9934d3e08a52e52d7da7dabfac484efe37a5380ee9088f7ace2efcde9"
      [] bytes = "HELLO" ->
             "sha256:3733cd977ff8eb18b987357e22ced99f46097f31ecb239e878ae63760e83e4d5"
      [] OTHER ->
             "sha256:e3b0c44298fc1c149afbf4c8996fb92427ae41e4649b934ca495991b7852b855"

\* The digest assertions a caller may attach to a file ("" is none).
CallerDigests == {"", SHA256("hello world")}

\* The writes AddFile is called with, <<owning tag, name, media type, digest
\* assertion, bytes>>: every combination under v0, and one file under the
\* other version and under a ref_ tag.
WriteCalls ==
    {<<TagV0, nf[1], nf[2], dg, ro>> :
        nf \in NamedFiles, dg \in CallerDigests, ro \in Contents}
    \cup {<<tag, NameTestTxt, "", "", "hello world">> :
             tag \in OwningTags \ {TagV0}}

\* The reads ReadFile is called with, <<owning tag, ref tag, name, digest
\* assertion>>.
ReadCalls ==
    {<<tag, ref, name, dg>> :
        tag \in {EmptyStr, TagV0}, ref \in {EmptyStr} \cup RefNames,
        name \in Names, dg \in CallerDigests}

\* The ref lists AppendRefs is called with.
RefArgs == {<<r>> : r \in RefNames}

\* RepoFile: the fields of the struct, and the two the tests pass besides
\* (RefTag, Digest), which no code of the facade reads. A RepoFile built in
\* the argument of an action is one value for all TLC workers: its fields
\* are listed in the order TLC sorts them into, so that sorting moves none.
RepoFile(repo, tag, ref, name, mt, dg) ==
    [name |-> name, owningRepo |-> repo, owningTag |-> tag, refTag |-> ref,
     mediaType |-> mt, digest |-> dg]

NoFile == RepoFile("", EmptyStr, EmptyStr, EmptyStr, "", "")

----------------------------------------------------------------------------
(* Descriptors and manifests.                                              *)

\* The zero ocispec.Descriptor{}: a layer descriptor with nothing set.
EmptyDescriptor ==
    [mediaType |-> "", digest |-> "", size |-> 0, annotations |-> <<>>]

\* l.Annotations[key], "" when the map is nil or lacks the key.
Annotation(l, key) ==
    IF key \in DOMAIN l.annotations THEN l.annotations[key] ELSE EmptyStr

\* The digest of a manifest stands for the sha256 of its JSON: equal exactly
\* when the manifests are equal. NoDigest is the empty digest of the zero
\* descriptor.
NoDigest == <<>>

ManifestDigest(m) == <<"sha256", m>>

\* A manifest descriptor, reduced to its digest.
ManifestDesc(m) == [digest |-> ManifestDigest(m)]

EmptyManifestDesc == [digest |-> NoDigest]

----------------------------------------------------------------------------
(* Errors, by the class the error chain puts them in.                      *)

ErrNil == "nil"

ErrNotFound == "NotFound"

ErrInternal == "Internal"

\* What a backend may answer to the empty reference instead of NotFound
\* (the resolver's own check of its argument).
ErrMissingReference == "MissingReference"

\* The two classes the facade's contract names and none of its code returns.
ErrInvalidArgument == "InvalidArgument"

ErrDigestMismatch == "DigestMismatch"

----------------------------------------------------------------------------
(* The backend: one destination repository per logical repository.         *)

\* newBackend addresses the repository host + path + "/" + OwningRepo: every
\* logical repository has a handle of its own.
newBackend(f) == f.owningRepo

\* inMemoryRepo.Resolve: the reference resolves when the store knows it and
\* allTags still holds it. The store's own resolver is written together with
\* allTags (Tag) and never forgets, so allTags decides.
Resolve(repo, reference) ==
    IF reference \in DOMAIN allTags[repo]
    THEN [err |-> ErrNil, desc |-> [digest |-> allTags[repo][reference]]]
    ELSE [err |-> ErrNotFound, desc |-> EmptyManifestDesc]

\* The errors a backend gives for a reference that does not resolve: for the
\* empty reference the resolver may refuse the argument or find no such tag.
UnresolvedErrs(reference) ==
    IF reference = EmptyStr THEN {ErrNotFound, ErrMissingReference}
    ELSE {ErrNotFound}

\* Fetch of a manifest from the content store: found by its digest.
FetchManifest(repo, manifestDesc) ==
    LET found == {m \in manifests[repo] : ManifestDigest(m) = manifestDesc.digest}
    IN  IF found = {}
        THEN [err |-> ErrNotFound, manifest |-> [artifactType |-> "", layers |-> <<>>, created |-> 0]]
        ELSE [err |-> ErrNil, manifest |-> CHOOSE m \in found : TRUE]

\* Fetch of a file blob from the content store: found by the layer's digest.
FetchBlob(repo, l) ==
    LET found == {b \in blobs[repo] : SHA256(b) = l.digest}
    IN  IF found = {}
        THEN [err |-> ErrNotFound, stream |-> <<>>]
        ELSE [err |-> ErrNil, stream |-> <<CHOOSE b \in found : TRUE>>]

\* Mutant of Tag: the backend keeps one tag per digest, the last one given.
Tag_OnePerDigest(tags, desc, reference) ==
    [t \in {u \in DOMAIN tags : tags[u] # desc.digest} \cup {reference} |->
        IF t = reference THEN desc.digest ELSE tags[t]]

\* Mutant of Tag: every tag that held the reference's manifest moves with it.
Tag_MovesAliases(tags, desc, reference) ==
    [t \in DOMAIN tags \cup {reference} |->
        IF \/ t = reference
           \/ reference \in DOMAIN tags /\ tags[t] = tags[reference]
        THEN desc.digest ELSE tags[t]]

\* inMemoryRepo.Tag: allTags[reference] = desc.Digest.
Tag(tags, desc, reference) ==
    [t \in DOMAIN tags \cup {reference} |->
        IF t = reference THEN desc.digest ELSE tags[t]]

\* Mutant of Delete: the backend acknowledges and removes nothing.
Delete_Nothing(tags, target) == tags

\* inMemoryRepo.Delete: every tag that holds the target's digest goes.
Delete(tags, target) ==
    [t \in {u \in DOMAIN tags : tags[u] # target.digest} |-> tags[t]]

\* Mutant of Tags: the backend lists one tag at most.
Tags_OneOnly(repo) ==
    IF DOMAIN allTags[repo] = {} THEN {}
    ELSE {CHOOSE t \in DOMAIN allTags[repo] : TRUE}

\* inMemoryRepo.Tags: the keys of allTags (a map: the order is not defined).
Tags(repo) == DOMAIN allTags[repo]

----------------------------------------------------------------------------
(* Helpers of the facade.                                                  *)

\* filepath.Ext: the suffix from the last dot of the last path element.
\* Mutant of Ext: the extension starts at the first dot of the name.
Ext_FirstDot(name) ==
    IF \E i \in DOMAIN name : name[i] = "."
    THEN SubSeq(name, CHOOSE i \in DOMAIN name :
                         /\ name[i] = "."
                         /\ \A j \in 1..(i - 1) : name[j] # ".",
                Len(name))
    ELSE EmptyStr

RECURSIVE ExtFrom(_, _)
ExtFrom(name, i) ==
    IF i < 1 \/ name[i] = "/" THEN EmptyStr
    ELSE IF name[i] = "." THEN SubSeq(name, i, Len(name))
    ELSE ExtFrom(name, i - 1)

Ext(name) == ExtFrom(name, Len(name))

detectFileMediaType(f) ==
    IF f.mediaType # "" THEN f.mediaType
    ELSE LET ext == Ext(f.name)
         IN  CASE ext = <<".", "t", "x", "t">> -> "text/plain"
               [] ext = <<".", "h", "t", "m", "l">> -> "text/html"
               [] ext = <<".", "x", "m", "l">> -> "application/xml"
               [] ext = <<".", "j", "s", "o", "n">> -> "application/json"
               [] ext = <<".", "t", "a", "r">> -> "application/x-tar"
               [] ext \in {<<".", "g", "z">>, <<".", "t", "g", "z">>} -> "application/x-gzip"
               [] ext = <<".", "z", "i", "p">> -> "application/zip"
               [] OTHER -> "application/octet-stream"

\* loadFile: the descriptor fs.Add computes over the landed bytes, with both
\* title annotations set to the file's name.
loadFile(f, ro) ==
    [mediaType |-> detectFileMediaType(f),
     digest |-> SHA256(ro),
     size |-> Len(ro),
     annotations |-> [k \in {FileNameAnnotation, AnnotationTitle} |-> f.name]]

\* The index of the first layer that carries fileDesc's filename, 0 for none
\* (the code's -1).
RECURSIVE existingFileIdx(_, _, _)
existingFileIdx(layers, fileDesc, i) ==
    IF i > Len(layers) THEN 0
    ELSE IF /\ DOMAIN layers[i].annotations # {}
            /\ Annotation(layers[i], FileNameAnnotation)
                   = Annotation(fileDesc, FileNameAnnotation)
         THEN i
         ELSE existingFileIdx(layers, fileDesc, i + 1)

\* Mutants of upsertFileLayer: one that keeps the new file only, one that
\* never compares digests, one that never looks for the filename, one that
\* appends a changed file, one that moves a changed file to the end, one
\* that puts a new filename first.
upsertFileLayer_OnlyNew(layers, fileDesc) ==
    [updated |-> TRUE, layers |-> <<fileDesc>>]

upsertFileLayer_NoDigestCheck(layers, fileDesc) ==
    LET idx == existingFileIdx(layers, fileDesc, 1)
    IN  IF idx # 0
        THEN [updated |-> TRUE, layers |-> [layers EXCEPT ![idx] = fileDesc]]
        ELSE [updated |-> TRUE, layers |-> Append(layers, fileDesc)]

upsertFileLayer_AlwaysAppend(layers, fileDesc) ==
    [updated |-> TRUE, layers |-> Append(layers, fileDesc)]

upsertFileLayer_AppendChanged(layers, fileDesc) ==
    LET idx == existingFileIdx(layers, fileDesc, 1)
    IN  IF idx # 0 /\ layers[idx].digest = fileDesc.digest
        THEN [updated |-> FALSE, layers |-> layers]
        ELSE [updated |-> TRUE, layers |-> Append(layers, fileDesc)]

upsertFileLayer_MoveToEnd(layers, fileDesc) ==
    LET idx == existingFileIdx(layers, fileDesc, 1)
    IN  IF idx # 0
        THEN IF layers[idx].digest # fileDesc.digest
             THEN [updated |-> TRUE,
                   layers |-> SubSeq(layers, 1, idx - 1)
                                 \o SubSeq(layers, idx + 1, Len(layers))
                                 \o <<fileDesc>>]
             ELSE [updated |-> FALSE, layers |-> layers]
        ELSE [updated |-> TRUE, layers |-> Append(layers, fileDesc)]

upsertFileLayer_NewFirst(layers, fileDesc) ==
    LET idx == existingFileIdx(layers, fileDesc, 1)
    IN  IF idx # 0
        THEN IF layers[idx].digest # fileDesc.digest
             THEN [updated |-> TRUE,
                   layers |-> [layers EXCEPT ![idx] = fileDesc]]
             ELSE [updated |-> FALSE, layers |-> layers]
        ELSE [updated |-> TRUE, layers |-> <<fileDesc>> \o layers]

upsertFileLayer(layers, fileDesc) ==
    LET idx == existingFileIdx(layers, fileDesc, 1)
    IN  IF idx # 0
        THEN IF layers[idx].digest # fileDesc.digest
             THEN [updated |-> TRUE,
                   layers |-> [layers EXCEPT ![idx] = fileDesc]]
             ELSE [updated |-> FALSE, layers |-> layers]
        ELSE [updated |-> TRUE, layers |-> Append(layers, fileDesc)]

manifestLayers(repo, manifestDesc) ==
    IF manifestDesc.digest # NoDigest
    THEN LET got == FetchManifest(repo, manifestDesc)
         IN  IF got.err # ErrNil
             THEN [err |-> got.err, layers |-> <<>>]
             ELSE [err |-> ErrNil, layers |-> got.manifest.layers]
    ELSE [err |-> ErrNil, layers |-> <<>>]

\* oras.PackManifest (image-spec v1.1): the artifact type, the layers, and the
\* creation time it stamps when the caller gives none.
PackManifest(artifactType, layers, created) ==
    [artifactType |-> artifactType, layers |-> layers, created |-> created]

----------------------------------------------------------------------------
(* The record of the last facade call: what it was given, what it          *)
(* returned, and the disk and backend operations it issued, in order.      *)

Call(op, f, ro, refs, err, manifest, file, stream, tags, io) ==
    [op |-> op, f |-> f, ro |-> ro, refs |-> refs, err |-> err,
     manifest |-> manifest, file |-> file, stream |-> stream, tags |-> tags,
     io |-> io]

NoCall ==
    Call("none", NoFile, "", <<>>, ErrNil, EmptyManifestDesc, EmptyDescriptor,
         <<>>, {}, <<>>)

----------------------------------------------------------------------------
(* Registry.AddFile.                                                       *)

\* What AddFile(f, ro) returns and what it leaves in the backend repository.
\* landFile and loadFile come first, whatever the file says; the resolve
\* ignores NotFound; an unchanged layer returns before pack and push; the
\* deferred os.Remove of the landed file runs last on every path past
\* landFile.
AddFileOutcome(f, ro) ==
    LET repo == newBackend(f)
        fileDesc == loadFile(f, ro)
        resolved == Resolve(repo, f.owningTag)
        manifestDesc == resolved.desc
        got == manifestLayers(repo, manifestDesc)
        up == upsertFileLayer(got.layers, fileDesc)
        newManifest == PackManifest(DefaultArtifactType, up.layers, now)
        landIO == <<"CreateTemp", "WriteTemp">>
        same == [tags |-> allTags[repo], manifests |-> manifests[repo],
                 blobs |-> blobs[repo]]
    IN  IF got.err # ErrNil
        THEN same @@ [err |-> got.err, manifest |-> EmptyManifestDesc,
                      file |-> EmptyDescriptor,
                      io |-> landIO \o <<"Resolve", "Fetch", "RemoveTemp">>]
        ELSE IF ~up.updated
        THEN same @@ [err |-> ErrNil, manifest |-> manifestDesc,
                      file |-> fileDesc,
                      io |-> landIO \o <<"Resolve", "Fetch", "RemoveTemp">>]
        ELSE [err |-> ErrNil,
              manifest |-> ManifestDesc(newManifest),
              file |-> fileDesc,
              io |-> landIO \o <<"Resolve">>
                       \o (IF manifestDesc.digest # NoDigest THEN <<"Fetch">> ELSE <<>>)
                       \o <<"Push", "Tag", "RemoveTemp">>,
              tags |-> Tag(allTags[repo], ManifestDesc(newManifest), f.owningTag),
              manifests |-> manifests[repo] \cup {newManifest},
              blobs |-> blobs[repo] \cup {ro}]

AddFile(f, ro) ==
    /\ nops < MaxOps
    /\ LET repo == newBackend(f)
           out == AddFileOutcome(f, ro)
       IN  /\ allTags' = [allTags EXCEPT ![repo] = out.tags]
           /\ manifests' = [manifests EXCEPT ![repo] = out.manifests]
           /\ blobs' = [blobs EXCEPT ![repo] = out.blobs]
           /\ last' = Call("AddFile", f, ro, <<>>, out.err, out.manifest,
                           out.file, <<>>, {}, out.io)
    /\ nops' = nops + 1
    /\ UNCHANGED <<now, appended, calls, returned, landed>>

----------------------------------------------------------------------------
(* Registry.ReadFile.                                                      *)

\* The first layer whose filename annotation equals name, 0 for none.
RECURSIVE layerNamed(_, _, _)
layerNamed(layers, name, i) ==
    IF i > Len(layers) THEN 0
    ELSE IF Annotation(layers[i], FileNameAnnotation) = name THEN i
    ELSE layerNamed(layers, name, i + 1)

\* What ReadFile(f) returns: it resolves f.OwningTag, nothing else of f but
\* the name is read. unresolved is the backend's error when the tag does not
\* resolve.
ReadFileOutcome(f, unresolved) ==
    LET repo == newBackend(f)
        resolved == Resolve(repo, f.owningTag)
        got == manifestLayers(repo, resolved.desc)
        idx == layerNamed(got.layers, f.name, 1)
        rc == FetchBlob(repo, got.layers[idx])
        failed(err, io) ==
            [err |-> err, manifest |-> EmptyManifestDesc,
             file |-> EmptyDescriptor, stream |-> <<>>, io |-> io]
    IN  IF resolved.err # ErrNil THEN failed(unresolved, <<"Resolve">>)
        ELSE IF got.err # ErrNil THEN failed(got.err, <<"Resolve", "Fetch">>)
        ELSE IF idx = 0 THEN failed(ErrNotFound, <<"Resolve", "Fetch">>)
        ELSE IF rc.err # ErrNil
        THEN failed(rc.err, <<"Resolve", "Fetch", "Fetch">>)
        ELSE [err |-> ErrNil, manifest |-> resolved.desc,
              file |-> got.layers[idx], stream |-> rc.stream,
              io |-> <<"Resolve", "Fetch", "Fetch">>]

ReadFile(f) ==
    /\ nops < MaxOps
    /\ \E unresolved \in UnresolvedErrs(f.owningTag) :
       LET out == ReadFileOutcome(f, unresolved)
       IN  last' = Call("ReadFile", f, "", <<>>, out.err, out.manifest,
                        out.file, out.stream, {}, out.io)
    /\ nops' = nops + 1
    /\ UNCHANGED <<allTags, manifests, blobs, now, appended, calls, returned,
                   landed>>

----------------------------------------------------------------------------
(* Registry.ListTags.                                                      *)

\* What ListTags(repo) returns: every tag the backend lists.
ListTagsOutcome(repo) == Tags(repo)

ListTags(repo) ==
    /\ nops < MaxOps
    /\ last' = Call("ListTags", RepoFile(repo, EmptyStr, EmptyStr, EmptyStr, "", ""),
                    "", <<>>, ErrNil, EmptyManifestDesc, EmptyDescriptor, <<>>,
                    ListTagsOutcome(repo), <<"Tags">>)
    /\ nops' = nops + 1
    /\ UNCHANGED <<allTags, manifests, blobs, now, appended, calls, returned,
                   landed>>

----------------------------------------------------------------------------
(* Registry.AppendRefs and Registry.DeleteTagFiles. appended remembers,     *)
(* for each ref AppendRefs has tagged, the tag it was appended from.       *)

\* Tags the manifest under ref_ + ref for each ref, in argument order.
RECURSIVE tagRefs(_, _, _)
tagRefs(tags, desc, refs) ==
    IF refs = <<>> THEN tags
    ELSE tagRefs(Tag(tags, desc, RefPrefix \o Head(refs)), desc, Tail(refs))

AppendRefs(repo, tag, refs) ==
    /\ nops < MaxOps
    /\ LET resolved == Resolve(repo, tag)
           f == RepoFile(repo, tag, EmptyStr, EmptyStr, "", "")
       IN  IF resolved.err # ErrNil
           THEN /\ last' = Call("AppendRefs", f, "", refs, resolved.err,
                                EmptyManifestDesc, EmptyDescriptor, <<>>, {},
                                <<"Resolve">>)
                /\ UNCHANGED <<allTags, appended>>
           ELSE /\ last' = Call("AppendRefs", f, "", refs, ErrNil,
                                resolved.desc, EmptyDescriptor, <<>>, {},
                                <<"Resolve">> \o [i \in 1..Len(refs) |-> "Tag"])
                /\ allTags' = [allTags EXCEPT
                                  ![repo] = tagRefs(@, resolved.desc, refs)]
                /\ appended' = [appended EXCEPT ![repo] =
                       [r \in DOMAIN @ \cup {refs[i] : i \in 1..Len(refs)} |->
                           IF \E i \in 1..Len(refs) : refs[i] = r
                           THEN tag ELSE @[r]]]
    /\ nops' = nops + 1
    /\ UNCHANGED <<manifests, blobs, now, calls, returned, landed>>

\* The ref lists of AppendRefs calls that may fail part-way.
RefSeqs == {<<RefTag1>>, <<RefTag1, RefTag2>>, <<RefTag2, RefTag1>>}

\* AppendRefs when tagging refs[i] fails: the refs before it are tagged and
\* stay, the call returns the error and tags no further ref. Whether the
\* failed tag took effect in the backend is the backend's business.
AppendRefsFault(repo, tag, refs, i, applied) ==
    /\ nops < MaxOps
    /\ i \in DOMAIN refs
    /\ Resolve(repo, tag).err = ErrNil
    /\ LET resolved == Resolve(repo, tag)
           f == RepoFile(repo, tag, EmptyStr, EmptyStr, "", "")
           tagged == SubSeq(refs, 1, IF applied THEN i ELSE i - 1)
       IN  /\ last' = Call("AppendRefs", f, "", refs, ErrInternal,
                           resolved.desc, EmptyDescriptor, <<>>, {},
                           <<"Resolve">> \o [k \in 1..i |-> "Tag"])
           /\ allTags' = [allTags EXCEPT
                             ![repo] = tagRefs(@, resolved.desc, tagged)]
           /\ appended' = [appended EXCEPT ![repo] =
                  [r \in DOMAIN @ \cup {tagged[k] : k \in DOMAIN tagged} |->
                      IF \E k \in DOMAIN tagged : tagged[k] = r
                      THEN tag ELSE @[r]]]
    /\ nops' = nops + 1
    /\ UNCHANGED <<manifests, blobs, now, calls, returned, landed>>

DeleteTagFiles(repo, tag) ==
    /\ nops < MaxOps
    /\ LET resolved == Resolve(repo, tag)
           f == RepoFile(repo, tag, EmptyStr, EmptyStr, "", "")
       IN  IF resolved.err # ErrNil
           THEN /\ last' = Call("DeleteTagFiles", f, "", <<>>, resolved.err,
                                EmptyManifestDesc, EmptyDescriptor, <<>>, {},
                                <<"Resolve">>)
                /\ UNCHANGED allTags
           ELSE /\ last' = Call("DeleteTagFiles", f, "", <<>>, ErrNil,
                                resolved.desc, EmptyDescriptor, <<>>, {},
                                <<"Resolve", "Delete">>)
                /\ allTags' = [allTags EXCEPT ![repo] = Delete(@, resolved.desc)]
    /\ nops' = nops + 1
    /\ UNCHANGED <<manifests, blobs, now, appended, calls, returned, landed>>

----------------------------------------------------------------------------
(* Registry.AddFile step by step, for calls that overlap. Each call runs   *)
(* in a process of its own and holds what the code holds in locals:        *)
(* fileDesc (loadFile), manifestDesc (Resolve) and layers                  *)
(* (manifestLayers). No step takes a lock. landed holds the processes      *)
(* whose scratch file exists in the landing directory; returned holds the  *)
(* (repo, tag, name) of every overlapping call that returned success.      *)

Procs == {"p1", "p2"}

IdleCall ==
    [pc |-> "idle", f |-> NoFile, ro |-> "", fileDesc |-> EmptyDescriptor,
     manifestDesc |-> EmptyManifestDesc, layers |-> <<>>]

InFlight == {p \in Procs : calls[p].pc # "idle"}

\* The overlapping writes: files of one version, without media type hint or
\* digest assertion.
ConcurrentWrites ==
    {w \in WriteCalls : w[1] = TagV0 /\ w[3] = "" /\ w[4] = ""}

\* landFile, loadFile, newBackendFunc.
BeginAddFile(p, f, ro) ==
    /\ calls[p].pc = "idle"
    /\ nops + Cardinality(InFlight) < MaxOps
    /\ calls' = [calls EXCEPT ![p] =
                    [IdleCall EXCEPT !.pc = "loaded", !.f = f, !.ro = ro,
                                     !.fileDesc = loadFile(f, ro)]]
    /\ landed' = landed \cup {p}
    /\ UNCHANGED <<allTags, manifests, blobs, now, nops, last, appended,
                   returned>>

\* backendRepo.Resolve(ctx, f.OwningTag); NotFound is no error.
ResolveTag(p) ==
    /\ calls[p].pc = "loaded"
    /\ calls' = [calls EXCEPT
                    ![p].pc = "resolved",
                    ![p].manifestDesc =
                        Resolve(newBackend(calls[p].f), calls[p].f.owningTag).desc]
    /\ UNCHANGED <<allTags, manifests, blobs, now, nops, last, appended,
                   returned, landed>>

\* manifestLayers(ctx, backendRepo, manifestDesc); on an error the call
\* returns it and the deferred remove deletes the scratch file.
FetchLayers(p) ==
    /\ calls[p].pc = "resolved"
    /\ LET c == calls[p]
           got == manifestLayers(newBackend(c.f), c.manifestDesc)
       IN  IF got.err # ErrNil
           THEN /\ calls' = [calls EXCEPT ![p] = IdleCall]
                /\ last' = Call("AddFile", c.f, c.ro, <<>>, got.err,
                                EmptyManifestDesc, EmptyDescriptor, <<>>, {},
                                <<"CreateTemp", "WriteTemp", "Resolve", "Fetch",
                                  "RemoveTemp">>)
                /\ landed' = landed \ {p}
                /\ nops' = nops + 1
           ELSE /\ calls' = [calls EXCEPT ![p].pc = "fetched",
                                          ![p].layers = got.layers]
                /\ UNCHANGED <<last, landed, nops>>
    /\ UNCHANGED <<allTags, manifests, blobs, now, appended, returned>>

\* Mutant of layersToUpsert: the call looks at the tag again when it pushes.
layersToUpsert_Current(read, current) == current

\* The layers the file is upserted into are the ones the call read from the
\* manifest it resolved, whatever the tag resolves to by now.
layersToUpsert(read, current) == read

\* upsertFileLayer, then the early return or PackManifest, Tag and Copy, and
\* the deferred remove of the scratch file.
FinishAddFile(p) ==
    /\ calls[p].pc = "fetched"
    /\ LET c == calls[p]
           repo == newBackend(c.f)
           current == manifestLayers(repo, Resolve(repo, c.f.owningTag).desc).layers
           up == upsertFileLayer(layersToUpsert(c.layers, current), c.fileDesc)
           newManifest == PackManifest(DefaultArtifactType, up.layers, now)
           landedIO == <<"CreateTemp", "WriteTemp", "Resolve">>
                          \o (IF c.manifestDesc.digest # NoDigest
                              THEN <<"Fetch">> ELSE <<>>)
       IN  IF ~up.updated
           THEN /\ last' = Call("AddFile", c.f, c.ro, <<>>, ErrNil,
                                c.manifestDesc, c.fileDesc, <<>>, {},
                                landedIO \o <<"RemoveTemp">>)
                /\ UNCHANGED <<allTags, manifests, blobs>>
           ELSE /\ last' = Call("AddFile", c.f, c.ro, <<>>, ErrNil,
                                ManifestDesc(newManifest), c.fileDesc, <<>>, {},
                                landedIO \o <<"Push", "Tag", "RemoveTemp">>)
                /\ allTags' = [allTags EXCEPT ![repo] =
                                  Tag(@, ManifestDesc(newManifest), c.f.owningTag)]
                /\ manifests' = [manifests EXCEPT ![repo] = @ \cup {newManifest}]
                /\ blobs' = [blobs EXCEPT ![repo] = @ \cup {c.ro}]
    /\ returned' = returned \cup
          {<<calls[p].f.owningRepo, calls[p].f.owningTag, calls[p].f.name>>}
    /\ calls' = [calls EXCEPT ![p] = IdleCall]
    /\ landed' = landed \ {p}
    /\ nops' = nops + 1
    /\ UNCHANGED <<now, appended>>

----------------------------------------------------------------------------
(* Registry.AddFile when one of its steps fails. The steps run in the      *)
(* order of the code; the call returns the error of the step that fails    *)
(* and the steps before it have taken effect. A failed step has no effect  *)
(* of its own. Copy pushes the file blob, then the manifest, then tags it. *)

\* Mutant of AddFileSteps: the tag is written before the content is pushed.
AddFileSteps_TagFirst ==
    <<"CreateTemp", "WriteTemp", "loadFile", "newBackend", "Resolve", "Fetch",
      "upsert", "PackManifest", "Tag", "CopyTag", "CopyBlob", "CopyManifest">>

AddFileSteps ==
    <<"CreateTemp", "WriteTemp", "loadFile", "newBackend", "Resolve", "Fetch",
      "upsert", "PackManifest", "Tag", "CopyBlob", "CopyManifest", "CopyTag">>

\* The steps that can fail: upsertFileLayer returns no error.
Faults == {AddFileSteps[i] : i \in DOMAIN AddFileSteps} \ {"upsert"}

StepIdx(step) == CHOOSE i \in DOMAIN AddFileSteps : AddFileSteps[i] = step

\* The step has completed when the call fails at fault.
Done(step, fault) == StepIdx(step) < StepIdx(fault)

\* defer os.Remove(tmpFile) is reached when landFile has returned no error.
removeDeferred(fault) == Done("WriteTemp", fault)

\* The call reaches the step: Fetch is skipped for a tag that does not
\* resolve, and an unchanged layer returns before PackManifest.
Reaches(f, ro, fault) ==
    LET repo == newBackend(f)
        manifestDesc == Resolve(repo, f.owningTag).desc
        up == upsertFileLayer(manifestLayers(repo, manifestDesc).layers,
                              loadFile(f, ro))
    IN  /\ fault = "Fetch" => manifestDesc.digest # NoDigest
        /\ Done("upsert", fault) => up.updated

AddFileFault(f, ro, fault) ==
    /\ nops < MaxOps
    /\ Reaches(f, ro, fault)
    /\ LET repo == newBackend(f)
           manifestDesc == Resolve(repo, f.owningTag).desc
           up == upsertFileLayer(manifestLayers(repo, manifestDesc).layers,
                                 loadFile(f, ro))
           newManifest == PackManifest(DefaultArtifactType, up.layers, now)
       IN  /\ blobs' = [blobs EXCEPT ![repo] =
                           IF Done("CopyBlob", fault) THEN @ \cup {ro} ELSE @]
           /\ manifests' = [manifests EXCEPT ![repo] =
                               IF Done("CopyManifest", fault)
                               THEN @ \cup {newManifest} ELSE @]
           /\ allTags' = [allTags EXCEPT ![repo] =
                             IF Done("CopyTag", fault)
                             THEN Tag(@, ManifestDesc(newManifest), f.owningTag)
                             ELSE @]
           /\ landed' = IF Done("CreateTemp", fault) /\ ~removeDeferred(fault)
                        THEN landed \cup {nops} ELSE landed
           /\ last' = Call("AddFile", f, ro, <<>>, ErrInternal,
                           EmptyManifestDesc, EmptyDescriptor, <<>>, {},
                           SubSeq(AddFileSteps, 1, StepIdx(fault))
                              \o (IF removeDeferred(fault)
                                  THEN <<"RemoveTemp">> ELSE <<>>))
    /\ nops' = nops + 1
    /\ UNCHANGED <<now, appended, calls, returned>>

----------------------------------------------------------------------------
(* detectFileMediaType on its own: filenames with each extension of the    *)
(* table, with an unknown one, with none, with two, with a dot in a        *)
(* directory only, and in upper case; with and without a media type hint.  *)

DetectNames ==
    {<<"t", "e", "s", "t", ".", "t", "x", "t">>,
     <<"t", "e", "s", "t", ".", "h", "t", "m", "l">>,
     <<"t", "e", "s", "t", ".", "x", "m", "l">>,
     <<"t", "e", "s", "t", ".", "j", "s", "o", "n">>,
     <<"t", "e", "s", "t", ".", "t", "a", "r">>,
     <<"t", "e", "s", "t", ".", "g", "z">>,
     <<"t", "e", "s", "t", ".", "t", "g", "z">>,
     <<"t", "e", "s", "t", ".", "z", "i", "p">>,
     <<"t", "e", "s", "t", ".", "b", "i", "n">>,
     <<"t", "e", "s", "t", ".", "u", "n", "k", "n", "o", "w", "n">>,
     <<"t", "e", "s", "t">>,
     <<"a", "r", "c", "h", "i", "v", "e", ".", "t", "a", "r", ".", "g", "z">>,
     <<"a", ".", "t", "x", "t", "/", "b">>,
     <<"t", "e", "s", "t", ".", "T", "X", "T">>}

DetectMediaTypes == {"", "application/custom", "text/plain"}

DetectFileMediaType(f) ==
    /\ nops < MaxOps
    /\ last' = Call("detectFileMediaType", f, "", <<>>, ErrNil,
                    EmptyManifestDesc,
                    [EmptyDescriptor EXCEPT !.mediaType = detectFileMediaType(f)],
                    <<>>, {}, <<>>)
    /\ nops' = nops + 1
    /\ UNCHANGED <<allTags, manifests, blobs, now, appended, calls, returned,
                   landed>>

----------------------------------------------------------------------------
(* HasCode (pkg/oci/errors.go). An error value is nil, a plain error with  *)
(* a text, a typed *errcode.ErrorResponse with a status, or an error that  *)
(* wraps others (fmt.Errorf with %w, errors.Join).                         *)

NilError == [kind |-> "nil"]

New(text) == [kind |-> "msg", text |-> text]

ErrorResponse(status) == [kind |-> "resp", status |-> status]

Wrap(inner) == [kind |-> "wrap", inner |-> inner]

\* ErrorResponse.Error(): the text of a response names its status.
ErrorText(resp) == <<"response status code", resp.status>>

\* http.StatusBadRequest, http.StatusNotFound.
StatusCodes == {400, 404}

ErrorLeaves ==
    {New(<<"some error">>)}
    \cup {ErrorResponse(c) : c \in StatusCodes}
    \cup {New(<<"wrapped: ">> \o ErrorText(ErrorResponse(c))) : c \in StatusCodes}

ErrorsWrappedOnce ==
    {Wrap(<<e>>) : e \in ErrorLeaves}
    \cup {Wrap(<<ErrorResponse(a), ErrorResponse(b)>>) : a, b \in StatusCodes}

ErrorValues ==
    {NilError} \cup ErrorLeaves \cup ErrorsWrappedOnce
    \cup {Wrap(<<e>>) : e \in ErrorsWrappedOnce}

NoResponse == [kind |-> "none"]

\* errors.As(err, &ec): the first *ErrorResponse of the tree, the error
\* itself before what it wraps, and what it wraps in order.
RECURSIVE errorsAs(_)
errorsAs(err) ==
    IF err.kind = "resp" THEN err
    ELSE IF err.kind # "wrap" THEN NoResponse
    ELSE LET found == [i \in DOMAIN err.inner |-> errorsAs(err.inner[i])]
             hits == {i \in DOMAIN found : found[i] # NoResponse}
         IN  IF hits = {} THEN NoResponse
             ELSE found[CHOOSE i \in hits : \A j \in hits : i <= j]

\* Mutant of HasCode: a type assertion on the error itself, no unwrapping.
HasCode_Outermost(err, code) == err.kind = "resp" /\ err.status = code

HasCode(err, code) ==
    LET ec == errorsAs(err)
    IN  ec # NoResponse /\ ec.status = code

HasCodeCall(err, code) ==
    /\ nops < MaxOps
    /\ last' = [op |-> "HasCode", arg |-> err, code |-> code,
                result |-> HasCode(err, code)]
    /\ nops' = nops + 1
    /\ UNCHANGED <<allTags, manifests, blobs, now, appended, calls, returned,
                   landed>>

----------------------------------------------------------------------------
(* Time, and the specification.                                            *)

Tick ==
    /\ now < MaxTime
    /\ now' = now + 1
    /\ UNCHANGED <<allTags, manifests, blobs, nops, last, appended, calls,
                   returned, landed>>

\* A fresh registry: no repository holds a tag, a manifest or a blob.
Init ==
    /\ allTags = [r \in AllRepos |-> <<>>]
    /\ manifests = [r \in AllRepos |-> {}]
    /\ blobs = [r \in AllRepos |-> {}]
    /\ now = 0
    /\ nops = 0
    /\ last = NoCall
    /\ appended = [r \in AllRepos |-> <<>>]
    /\ calls = [p \in Procs |-> IdleCall]
    /\ returned = {}
    /\ landed = {}

Next ==
    \/ \E repo \in Repos, w \in WriteCalls :
          AddFile(RepoFile(repo, w[1], EmptyStr, w[2], w[3], w[4]), w[5])
    \/ \E repo \in Repos, r \in ReadCalls :
          ReadFile(RepoFile(repo, r[1], r[2], r[3], "", r[4]))
    \/ \E repo \in Repos : ListTags(repo)
    \/ \E repo \in Repos, tag \in CanonicalTags, refs \in RefArgs :
          AppendRefs(repo, tag, refs)
    \/ \E repo \in Repos, tag \in CanonicalTags : DeleteTagFiles(repo, tag)
    \/ Tick

Spec == Init /\ [][Next]_vars

\* The same program with callers that keep to the data model: the owning tag
\* of a write is a version, never a ref_ string.
NextVersioned ==
    \/ \E repo \in Repos, w \in {c \in WriteCalls : c[1] \in CanonicalTags} :
          AddFile(RepoFile(repo, w[1], EmptyStr, w[2], w[3], w[4]), w[5])
    \/ \E repo \in Repos, r \in ReadCalls :
          ReadFile(RepoFile(repo, r[1], r[2], r[3], "", r[4]))
    \/ \E repo \in Repos : ListTags(repo)
    \/ \E repo \in Repos, tag \in CanonicalTags, refs \in RefArgs :
          AppendRefs(repo, tag, refs)
    \/ \E repo \in Repos, tag \in CanonicalTags : DeleteTagFiles(repo, tag)
    \/ Tick

SpecVersioned == Init /\ [][NextVersioned]_vars

\* Overlapping AddFile calls on one version, each taking its steps when it
\* is scheduled.
NextConcurrent ==
    \/ \E p \in Procs, repo \in Repos, w \in ConcurrentWrites :
          BeginAddFile(p, RepoFile(repo, w[1], EmptyStr, w[2], w[3], w[4]), w[5])
    \/ \E p \in Procs : ResolveTag(p)
    \/ \E p \in Procs : FetchLayers(p)
    \/ \E p \in Procs : FinishAddFile(p)
    \/ Tick

SpecConcurrent == Init /\ [][NextConcurrent]_vars

\* Writes to one version, any of which may fail at any of its steps.
NextFaults ==
    \/ \E repo \in Repos, w \in ConcurrentWrites :
          AddFile(RepoFile(repo, w[1], EmptyStr, w[2], w[3], w[4]), w[5])
    \/ \E repo \in Repos, w \in ConcurrentWrites, fault \in Faults :
          AddFileFault(RepoFile(repo, w[1], EmptyStr, w[2], w[3], w[4]), w[5],
                       fault)
    \/ Tick

SpecFaults == Init /\ [][NextFaults]_vars

\* The media type detector applied to one file after another.
NextDetect ==
    \E repo \in Repos, name \in DetectNames, mt \in DetectMediaTypes :
       DetectFileMediaType(RepoFile(repo, TagV0, EmptyStr, name, mt, ""))

SpecDetect == Init /\ [][NextDetect]_vars

\* The status classifier applied to one error after another.
NextHasCode ==
    \E err \in ErrorValues, code \in StatusCodes : HasCodeCall(err, code)

SpecHasCode == Init /\ [][NextHasCode]_vars

\* Versions written, deleted and aliased, with AppendRefs calls that may fail
\* at any of their refs.
NextRefs ==
    \/ \E repo \in Repos, w \in ConcurrentWrites :
          AddFile(RepoFile(repo, w[1], EmptyStr, w[2], w[3], w[4]), w[5])
    \/ \E repo \in Repos, tag \in CanonicalTags, refs \in RefSeqs :
          AppendRefs(repo, tag, refs)
    \/ \E repo \in Repos, tag \in CanonicalTags, refs \in RefSeqs :
          \E i \in DOMAIN refs, applied \in BOOLEAN :
             AppendRefsFault(repo, tag, refs, i, applied)
    \/ \E repo \in Repos, tag \in CanonicalTags : DeleteTagFiles(repo, tag)
    \/ Tick

SpecRefs == Init /\ [][NextRefs]_vars

----------------------------------------------------------------------------
(* Registry.ListFiles, as the facade's contract describes it: for each     *)
(* tag that is no ref_ alias, one RepoFile per layer that carries the      *)
(* filename annotation, in layer order.                                    *)

IsRefTag(tag) == HasPrefix(tag, RefPrefix)

RECURSIVE filesOf(_, _, _)
filesOf(repo, tag, layers) ==
    IF layers = <<>> THEN <<>>
    ELSE LET l == Head(layers)
             rest == filesOf(repo, tag, Tail(layers))
         IN  IF FileNameAnnotation \in DOMAIN l.annotations
             THEN <<RepoFile(repo, tag, EmptyStr,
                             l.annotations[FileNameAnnotation], "", l.digest)>>
                  \o rest
             ELSE rest

ListFiles(repo) ==
    [tag \in {t \in Tags(repo) : ~IsRefTag(t)} |->
        filesOf(repo, tag,
                manifestLayers(repo, Resolve(repo, tag).desc).layers)]

\* The call of ListFiles: last holds the listing, by tag.
ListFilesCall(repo) ==
    /\ nops < MaxOps
    /\ last' = Call("ListFiles",
                    RepoFile(repo, EmptyStr, EmptyStr, EmptyStr, "", ""),
                    "", <<>>, ErrNil, EmptyManifestDesc, EmptyDescriptor, <<>>,
                    {}, <<"Tags">>)
                  @@ [files |-> ListFiles(repo)]
    /\ nops' = nops + 1
    /\ UNCHANGED <<allTags, manifests, blobs, now, appended, calls, returned,
                   landed>>

\* A layer that carries no annotation: the blob of another OCI client.
UntitledLayer ==
    [mediaType |-> "application/octet-stream", digest |-> "sha256:456",
     size |-> 200, annotations |-> <<>>]

\* Another client of the backend pushes a manifest of its own, with a layer
\* that carries no filename, and tags it. It is no call of the facade.
PushOther(repo, tag) ==
    /\ LET m == PackManifest("application/vnd.other", <<UntitledLayer>>, 0)
       IN  /\ tag \notin DOMAIN allTags[repo]
           /\ allTags' = [allTags EXCEPT ![repo] = Tag(@, ManifestDesc(m), tag)]
           /\ manifests' = [manifests EXCEPT ![repo] = @ \cup {m}]
    /\ UNCHANGED <<blobs, now, nops, last, appended, calls, returned, landed>>

\* Versions written and aliased, one of them begun by another client, and
\* listed.
NextListFiles ==
    \/ \E repo \in Repos, w \in {c \in WriteCalls : c[3] = "" /\ c[4] = ""} :
          AddFile(RepoFile(repo, w[1], EmptyStr, w[2], w[3], w[4]), w[5])
    \/ \E repo \in Repos, tag \in CanonicalTags, refs \in RefArgs :
          AppendRefs(repo, tag, refs)
    \/ \E repo \in Repos : PushOther(repo, TagV1)
    \/ \E repo \in Repos : ListFilesCall(repo)
    \/ Tick

SpecListFiles == Init /\ [][NextListFiles]_vars

----------------------------------------------------------------------------
(* Registry.DeleteRepoFiles, as the facade's contract describes it: list   *)
(* the tags with ListTags, then DeleteTagFiles for each, in the order the  *)
(* backend listed them; the first delete that fails ends the call.         *)

\* The orders a set of tags may be listed in.
RECURSIVE Orders(_)
Orders(S) ==
    IF S = {} THEN {<<>>}
    ELSE UNION {{<<t>> \o o : o \in Orders(S \ {t})} : t \in S}

\* Every order of every set of tags a repository may hold.
TagOrders == UNION {Orders(S) : S \in SUBSET OwningTags}

\* DeleteTagFiles for each tag of order, from the tags the backend holds:
\* the tags left, the error, and the (tag, manifest digest) of every delete
\* issued.
RECURSIVE deleteEach(_, _, _)
deleteEach(tags, order, deleted) ==
    IF order = <<>> THEN [tags |-> tags, err |-> ErrNil, deleted |-> deleted]
    ELSE IF Head(order) \notin DOMAIN tags
    THEN [tags |-> tags, err |-> ErrNotFound, deleted |-> deleted]
    ELSE deleteEach(Delete(tags, [digest |-> tags[Head(order)]]), Tail(order),
                    Append(deleted, <<Head(order), tags[Head(order)]>>))

DeleteRepoFiles(repo, order) ==
    /\ nops < MaxOps
    /\ order \in Orders(ListTagsOutcome(repo))
    /\ LET out == deleteEach(allTags[repo], order, <<>>)
       IN  /\ allTags' = [allTags EXCEPT ![repo] = out.tags]
           /\ last' = Call("DeleteRepoFiles",
                           RepoFile(repo, EmptyStr, EmptyStr, EmptyStr, "", ""),
                           "", <<>>, out.err, EmptyManifestDesc,
                           EmptyDescriptor, <<>>, ListTagsOutcome(repo),
                           <<"Tags">>)
                         @@ [deleted |-> out.deleted]
    /\ nops' = nops + 1
    /\ UNCHANGED <<manifests, blobs, now, appended, calls, returned, landed>>

\* Versions written and aliased by callers that keep to the data model, and
\* repositories emptied.
NextRepoFiles ==
    \/ \E repo \in Repos, w \in {c \in WriteCalls : c[1] \in CanonicalTags
                                                     /\ c[3] = "" /\ c[4] = ""} :
          AddFile(RepoFile(repo, w[1], EmptyStr, w[2], w[3], w[4]), w[5])
    \/ \E repo \in Repos, tag \in CanonicalTags, refs \in RefArgs :
          AppendRefs(repo, tag, refs)
    \/ \E repo \in Repos, order \in TagOrders : DeleteRepoFiles(repo, order)
    \/ Tick

SpecRepoFiles == Init /\ [][NextRepoFiles]_vars

----------------------------------------------------------------------------
(* The credential carrier (pkg/cred) and the client newBackend builds.     *)
(* A context is the chain of its bindings, oldest first; a key is its Go   *)
(* type and its text, so that a string key of another package with the     *)
(* same text is another key.                                               *)

Background == <<>>

WithValue(ctx, key, val) == Append(ctx, <<key, val>>)

\* ctx.Value(key): the value of the newest binding of the key, nil for none.
NilValue == [type |-> "nil"]

Value(ctx, key) ==
    LET bound == {i \in DOMAIN ctx : ctx[i][1] = key}
    IN  IF bound = {} THEN NilValue
        ELSE ctx[CHOOSE i \in bound : \A j \in bound : j <= i][2]

credKey == <<"cred.contextKey", "cred">>

\* A nil *BasicCred.
NoBasic == [set |-> FALSE]

BasicCred(user, password) == [set |-> TRUE, user |-> user, password |-> password]

Cred(basic) == [type |-> "*cred.Cred", basic |-> basic]

WithCred(ctx, cred) == WithValue(ctx, credKey, cred)

FromContext(ctx) ==
    LET v == Value(ctx, credKey)
    IN  IF v.type = "*cred.Cred" THEN [cred |-> v, ok |-> TRUE]
        ELSE [cred |-> NilValue, ok |-> FALSE]

\* r.BasicAuth(): the Authorization headers requests arrive with; the last
\* is the basic header with empty user and password.
NoHeader == [ok |-> FALSE]

BasicHeaders ==
    {[ok |-> TRUE, user |-> "user", password |-> "password"],
     [ok |-> TRUE, user |-> "other", password |-> "secret"],
     [ok |-> TRUE, user |-> "", password |-> ""]}

PassThroughAuth(ctx, header) ==
    IF header.ok
    THEN WithCred(ctx, Cred(BasicCred(header.user, header.password)))
    ELSE ctx

\* The Loggeer middleware binds the logger under a key of its own package.
WithLogger(ctx) ==
    WithValue(ctx, <<"logging.contextKey", "logger">>, [type |-> "*slog.Logger"])

\* The contexts requests are served with: what the middlewares build, in
\* both orders, and what the tests of the carrier bind (a Cred without
\* Basic, a value of another type under the key, a Cred under the string
\* key of another package).
RequestContexts ==
    {PassThroughAuth(Background, h) : h \in BasicHeaders \cup {NoHeader}}
    \cup {WithLogger(PassThroughAuth(Background, h)) : h \in BasicHeaders}
    \cup {PassThroughAuth(WithLogger(Background), h) : h \in {NoHeader}}
    \cup {WithCred(Background, Cred(NoBasic)),
          WithValue(Background, credKey, [type |-> "string", s |-> "not a cred"]),
          WithValue(Background, <<"string", "cred">>,
                    Cred(BasicCred("user", "password")))}

\* baseURL.Host of the facade.
BaseURLHost == "example.com"

\* The client of the repository handle: remote.NewRepository leaves the
\* default client, which sends no credential; with a basic credential in
\* the context newBackend replaces it by a client with that credential,
\* static and bound to the registry host.
AnonymousClient == [client |-> "auth.DefaultClient", anonymous |-> TRUE]

newBackendClient(ctx) ==
    LET c == FromContext(ctx)
    IN  IF c.ok /\ c.cred.basic # NoBasic
        THEN [client |-> "auth.Client", anonymous |-> FALSE,
              registry |-> BaseURLHost,
              username |-> c.cred.basic.user,
              password |-> c.cred.basic.password]
        ELSE AnonymousClient

\* Mutant of requestContext: the credential is looked up in what the request
\* served last has left behind.
requestContext_Ambient(p, cs) ==
    IF \E q \in Procs \ {p} : cs[q].pc # "idle"
    THEN cs[CHOOSE q \in Procs \ {p} : cs[q].pc # "idle"].ctx
    ELSE cs[p].ctx

\* The context newBackend is called with is the one of its own request.
requestContext(p, cs) == cs[p].ctx

\* A request arrives and the middlewares have bound its context.
BeginRequest(p, repo, ctx) ==
    /\ calls[p].pc = "idle"
    /\ nops + Cardinality(InFlight) < MaxOps
    /\ calls' = [calls EXCEPT ![p] =
                    [pc |-> "serving",
                     f |-> RepoFile(repo, TagV0, EmptyStr, NameTestTxt, "", ""),
                     ctx |-> ctx]]
    /\ UNCHANGED <<allTags, manifests, blobs, now, nops, last, appended,
                   returned, landed>>

\* r.newBackendFunc(ctx, f) of the request's facade call.
NewBackend(p) ==
    /\ calls[p].pc = "serving"
    /\ calls' = [calls EXCEPT ![p] =
                    [pc |-> "backend", f |-> calls[p].f, ctx |-> calls[p].ctx,
                     from |-> FromContext(requestContext(p, calls)),
                     repo |-> newBackend(calls[p].f),
                     client |-> newBackendClient(requestContext(p, calls))]]
    /\ UNCHANGED <<allTags, manifests, blobs, now, nops, last, appended,
                   returned, landed>>

\* The request is answered and its handle dropped.
EndRequest(p) ==
    /\ calls[p].pc = "backend"
    /\ calls' = [calls EXCEPT ![p] = IdleCall]
    /\ nops' = nops + 1
    /\ last' = [op |-> "newBackend", f |-> calls[p].f, ctx |-> calls[p].ctx,
                client |-> calls[p].client]
    /\ UNCHANGED <<allTags, manifests, blobs, now, appended, returned, landed>>

\* Requests that overlap, each with a context of its own.
NextCred ==
    \/ \E p \in Procs, repo \in Repos, ctx \in RequestContexts :
          BeginRequest(p, repo, ctx)
    \/ \E p \in Procs : NewBackend(p)
    \/ \E p \in Procs : EndRequest(p)

SpecCred == Init /\ [][NextCred]_vars

----------------------------------------------------------------------------
(* The protocol frontends (pkg/handler/maven, pkg/handler/python): how     *)
(* handleGet and handlePut answer what the registry returns. The registry  *)
(* is the handler.Registry interface: its answers are inputs.              *)

StatusOK == 200

StatusCreated == 201

StatusUnauthorized == 401

StatusForbidden == 403

StatusNotFound == 404

StatusInternalServerError == 500

\* errdef.ErrNotFound, the sentinel the registry's NotFound errors wrap.
ErrNotFoundValue == [kind |-> "sentinel", name |-> "errdef.ErrNotFound"]

\* Mutant of errorsIs: the error is compared itself, nothing is unwrapped.
errorsIs_Direct(err, target) == err = target

\* errors.Is(err, target): the error itself or any error it wraps.
RECURSIVE errorsIs(_, _)
errorsIs(err, target) ==
    IF err = target THEN TRUE
    ELSE IF err.kind # "wrap" THEN FALSE
    ELSE \E i \in DOMAIN err.inner : errorsIs(err.inner[i], target)

\* The statuses of the typed responses a backend answers with.
ResponseStatuses ==
    {StatusUnauthorized, StatusForbidden, StatusNotFound,
     StatusInternalServerError}

\* The errors a registry call returns: a plain error, NotFound, a typed
\* response; each as it is and wrapped once and twice (fmt.Errorf with %w,
\* as every error path of the facade wraps).
RegistryErrorLeaves ==
    {New(<<"some error">>), ErrNotFoundValue}
    \cup {ErrorResponse(c) : c \in ResponseStatuses}

RegistryErrors ==
    RegistryErrorLeaves
    \cup {Wrap(<<e>>) : e \in RegistryErrorLeaves}
    \cup {Wrap(<<Wrap(<<e>>)>>) : e \in RegistryErrorLeaves}

\* The file a request is for, and what the registry answers for it on
\* success.
RequestedFile ==
    RepoFile("com/example/project", <<"1", ".", "0", ".", "0">>, EmptyStr,
             NameTestTxt, "text/plain", "")

ReadAnswers ==
    {[err |-> e, file |-> EmptyDescriptor, stream |-> <<>>] : e \in RegistryErrors}
    \cup {[err |-> NilError, file |-> loadFile(RequestedFile, ro),
           stream |-> <<ro>>] : ro \in Contents}

\* How the copy of the stream to the response ends: it succeeds, it fails
\* before a byte is written, or after the response has begun.
CopyEnds == {"ok", "failsBeforeWrite", "failsAfterWrite"}

NoHeaders == <<>>

\* http.Error(w, err.Error(), code).
httpError(code) ==
    [status |-> code, headers |-> NoHeaders, body |-> <<"error">>]

\* The status of the answer to a failed registry call, as handlePut maps it.
putErrorStatus(err) ==
    IF HasCode(err, StatusUnauthorized) THEN StatusUnauthorized
    ELSE IF HasCode(err, StatusForbidden) THEN StatusForbidden
    ELSE StatusInternalServerError

\* The same as handleGet maps it: NotFound is looked for first.
getErrorStatus(err) ==
    IF errorsIs(err, ErrNotFoundValue) THEN StatusNotFound
    ELSE putErrorStatus(err)

\* handleGet: the answer to a GET or HEAD, from what ReadFile returned.
handleGet(method, f, read, copy) ==
    IF read.err # NilError THEN httpError(getErrorStatus(read.err))
    ELSE LET headers ==
                 [h \in {"Content-Type", "Content-Length", "X-Checksum-Sha256"} |->
                     CASE h = "Content-Type" -> f.mediaType
                       [] h = "Content-Length" -> read.file.size
                       [] OTHER -> read.file.digest]
         IN  IF method = "HEAD"
             THEN [status |-> StatusOK, headers |-> headers, body |-> <<>>]
             ELSE IF copy = "ok"
             THEN [status |-> StatusOK, headers |-> headers, body |-> read.stream]
             ELSE IF copy = "failsBeforeWrite"
             THEN httpError(StatusInternalServerError)
             ELSE [status |-> StatusOK, headers |-> headers, body |-> <<"partial">>]

\* handlePut: the answer to a PUT, from what AddFile returned for each file
\* of the request in turn (one file for Maven, one or more for Python).
RECURSIVE handlePut(_)
handlePut(errs) ==
    IF errs = <<>>
    THEN [status |-> StatusCreated, headers |-> NoHeaders, body |-> <<>>]
    ELSE IF Head(errs) # NilError THEN httpError(putErrorStatus(Head(errs)))
    ELSE handlePut(Tail(errs))

HandleGet(method, read, copy) ==
    /\ nops < MaxOps
    /\ last' = [op |-> "handleGet", method |-> method, f |-> RequestedFile,
                err |-> read.err, file |-> read.file, stream |-> read.stream,
                copy |-> copy,
                response |-> handleGet(method, RequestedFile, read, copy)]
    /\ nops' = nops + 1
    /\ UNCHANGED <<allTags, manifests, blobs, now, appended, calls, returned,
                   landed>>

HandlePut(errs) ==
    /\ nops < MaxOps
    /\ last' = [op |-> "handlePut", method |-> "PUT", f |-> RequestedFile,
                errs |-> errs,
                err |-> IF \E i \in DOMAIN errs : errs[i] # NilError
                        THEN errs[CHOOSE i \in DOMAIN errs :
                                     /\ errs[i] # NilError
                                     /\ \A j \in 1..(i - 1) : errs[j] = NilError]
                        ELSE NilError,
                response |-> handlePut(errs)]
    /\ nops' = nops + 1
    /\ UNCHANGED <<allTags, manifests, blobs, now, appended, calls, returned,
                   landed>>

\* Requests answered one after another.
NextHandlers ==
    \/ \E method \in {"GET", "HEAD"}, read \in ReadAnswers, copy \in CopyEnds :
          HandleGet(method, read, copy)
    \/ \E e \in RegistryErrors \cup {NilError} : HandlePut(<<e>>)
    \/ \E e \in RegistryErrors \cup {NilError} : HandlePut(<<NilError, e>>)

SpecHandlers == Init /\ [][NextHandlers]_vars

----------------------------------------------------------------------------
(* The Maven path parser (pkg/handler/maven): pathToRepoFile maps the path  *)
(* of a request, trimmed of its slashes, to the file it is about.           *)

SegCom == <<"c", "o", "m">>

SegExample == <<"e", "x", "a", "m", "p", "l", "e">>

SegProject == <<"p", "r", "o", "j", "e", "c", "t">>

SegVersion == <<"1", ".", "0", ".", "0">>

SegSnapshot ==
    <<"1", ".", "0", ".", "0", "-", "S", "N", "A", "P", "S", "H", "O", "T">>

MavenMetadataXml ==
    <<"m", "a", "v", "e", "n", "-", "m", "e", "t", "a", "d", "a", "t", "a",
      ".", "x", "m", "l">>

ArchetypeCatalogXml ==
    <<"a", "r", "c", "h", "e", "t", "y", "p", "e", "-", "c", "a", "t", "a",
      "l", "o", "g", ".", "x", "m", "l">>

NameJar ==
    <<"p", "r", "o", "j", "e", "c", "t", "-", "1", ".", "0", ".", "0", ".",
      "j", "a", "r">>

SnapshotMark == <<"-", "S", "N", "A", "P", "S", "H", "O", "T">>

MetadataSuffix == <<"-", "m", "e", "t", "a", "d", "a", "t", "a">>

TagMetadata == <<"m", "e", "t", "a", "d", "a", "t", "a">>

TagLatest == <<"l", "a", "t", "e", "s", "t">>

RepoArchetype == <<"a", "r", "c", "h", "e", "t", "y", "p", "e">>

mimeTypes ==
    {<<<<"x", "m", "l">>, "text/xml">>,
     <<<<"p", "o", "m">>, "text/xml">>,
     <<<<"j", "a", "r">>, "application/java-archive">>,
     <<<<"m", "d", "5">>, "text/plain">>,
     <<<<"s", "h", "a", "1">>, "text/plain">>,
     <<<<"s", "h", "a", "2", "5", "6">>, "text/plain">>,
     <<<<"s", "h", "a", "5", "1", "2">>, "text/plain">>,
     <<<<"z", "i", "p">>, "application/zip">>,
     <<<<"w", "a", "r">>, "application/zip">>,
     <<<<"e", "a", "r">>, "application/zip">>,
     <<<<"t", "a", "r">>, "application/x-tar">>,
     <<<<"s", "w", "c">>, "application/zip">>,
     <<<<"s", "w", "f">>, "application/x-shockwave-flash">>,
     <<<<"g", "z">>, "application/x-gzip">>,
     <<<<"t", "g", "z">>, "application/x-tgz">>,
     <<<<"b", "z", "2">>, "application/x-bzip2">>,
     <<<<"t", "b", "z">>, "application/x-bzip2">>,
     <<<<"a", "s", "c">>, "text/plain">>,
     <<<<"r", "p", "m">>, "application/octet-stream">>,
     <<<<"d", "e", "b">>, "application/octet-stream">>}

\* strings.Split(p, "/"): the pieces between the slashes, empty ones kept.
RECURSIVE Split(_, _)
Split(p, piece) ==
    IF p = <<>> THEN <<piece>>
    ELSE IF Head(p) = "/" THEN <<piece>> \o Split(Tail(p), <<>>)
    ELSE Split(Tail(p), Append(piece, Head(p)))

\* strings.Join(parts, "/").
RECURSIVE Join(_)
Join(parts) ==
    IF parts = <<>> THEN <<>>
    ELSE IF Len(parts) = 1 THEN parts[1]
    ELSE parts[1] \o <<"/">> \o Join(Tail(parts))

\* Mutant of Contains: the substring is looked for at the start only.
Contains_AtStart(st, substr) == HasPrefix(st, substr)

\* strings.Contains(s, substr).
RECURSIVE Contains(_, _)
Contains(st, substr) ==
    IF Len(st) < Len(substr) THEN FALSE
    ELSE IF SubSeq(st, 1, Len(substr)) = substr THEN TRUE
    ELSE Contains(Tail(st), substr)

\* strings.Trim(s, "."): the dots at both ends go.
RECURSIVE TrimDots(_)
TrimDots(st) ==
    IF st = <<>> THEN st
    ELSE IF Head(st) = "." THEN TrimDots(Tail(st))
    ELSE IF st[Len(st)] = "." THEN TrimDots(SubSeq(st, 1, Len(st) - 1))
    ELSE st

\* detectMediaType: the entry of mimeTypes for the extension, without its
\* dot, of the filename.
detectMediaType(filename) ==
    LET ext == TrimDots(Ext(filename))
        hits == {e \in mimeTypes : e[1] = ext}
    IN  IF hits # {} THEN (CHOOSE e \in hits : TRUE)[2]
        ELSE "application/octet-stream"

pathToRepoFile(p) ==
    IF p = ArchetypeCatalogXml
    THEN [err |-> ErrNil,
          file |-> RepoFile(RepoArchetype, TagLatest, EmptyStr, p, "text/xml", "")]
    ELSE LET parts == Split(p, <<>>)
             n == Len(parts)
             fn == parts[n]
         IN  IF n < 3 THEN [err |-> ErrInternal, file |-> NoFile]
             ELSE IF fn = MavenMetadataXml
             THEN IF Contains(parts[n - 1], SnapshotMark)
                  THEN [err |-> ErrNil,
                        file |-> RepoFile(Join(SubSeq(parts, 1, n - 2)),
                                          parts[n - 1] \o MetadataSuffix,
                                          EmptyStr, MavenMetadataXml,
                                          "text/xml", "")]
                  ELSE [err |-> ErrNil,
                        file |-> RepoFile(Join(SubSeq(parts, 1, n - 1)),
                                          TagMetadata, EmptyStr,
                                          MavenMetadataXml, "text/xml", "")]
             ELSE IF n < 4 THEN [err |-> ErrInternal, file |-> NoFile]
             ELSE [err |-> ErrNil,
                   file |-> RepoFile(Join(SubSeq(parts, 1, n - 2)),
                                     parts[n - 1], EmptyStr, fn,
                                     detectMediaType(fn), "")]

\* The segments request paths are made of, <<>> for the empty segment of a
\* doubled slash.
PathSegments ==
    {SegProject, SegVersion, SegSnapshot, MavenMetadataXml, NameJar,
     ArchetypeCatalogXml, <<>>}

\* The paths the parser is given, by their segments: up to three leading
\* directories, then one or two segments of any kind.
PathsBySegments ==
    {pre \o tl :
        pre \in {<<>>, <<SegCom>>, <<SegCom, SegExample>>,
                 <<SegCom, SegExample, SegProject>>},
        tl \in {<<a>> : a \in PathSegments}
               \cup {<<a, b>> : a, b \in PathSegments}}

PathToRepoFile(segs) ==
    /\ nops < MaxOps
    /\ LET out == pathToRepoFile(Join(segs))
       IN  last' = [op |-> "pathToRepoFile", segs |-> segs, path |-> Join(segs),
                    err |-> out.err, file |-> out.file]
    /\ nops' = nops + 1
    /\ UNCHANGED <<allTags, manifests, blobs, now, appended, calls, returned,
                   landed>>

\* The parser applied to one path after another.
NextPaths == \E segs \in PathsBySegments : PathToRepoFile(segs)

SpecPaths == Init /\ [][NextPaths]_vars

\* Two repositories with two versions each: files written, versions aliased
\* and deleted.
NextIsolation ==
    \/ \E repo \in AllRepos, tag \in CanonicalTags, ro \in Contents :
          AddFile(RepoFile(repo, tag, EmptyStr, NameTestTxt, "", ""), ro)
    \/ \E repo \in AllRepos, tag \in CanonicalTags, refs \in RefArgs :
          AppendRefs(repo, tag, refs)
    \/ \E repo \in AllRepos, tag \in CanonicalTags :
          DeleteTagFiles(repo, tag)
    \/ Tick

SpecIsolation == Init /\ [][NextIsolation]_vars

\* Files written and overwritten under two versions, either of which
\* another client may have begun.
NextLayers ==
    \/ \E repo \in Repos, tag \in CanonicalTags, name \in Names,
          ro \in Contents :
          AddFile(RepoFile(repo, tag, EmptyStr, name, "", ""), ro)
    \/ \E repo \in Repos, tag \in CanonicalTags : PushOther(repo, tag)
    \/ Tick

SpecLayers == Init /\ [][NextLayers]_vars

----------------------------------------------------------------------------
(* upsertFileLayer on its own, over layer lists and descriptors as its     *)
(* test builds them.                                                       *)

\* A layer descriptor with the filename annotation only.
TitledLayer(title, dg) ==
    [mediaType |-> "text/plain", digest |-> dg, size |-> 100,
     annotations |-> [k \in {FileNameAnnotation} |-> title]]

UpsertDigests == {"sha256:123", "sha256:456"}

\* The descriptors a file is upserted with.
UpsertDescs == {TitledLayer(n, dg) : n \in Names, dg \in UpsertDigests}

\* The lists of up to three layers, with or without filename, in which no
\* two layers carry the same filename.
UpsertLayerLists ==
    LET L == UpsertDescs \cup {UntitledLayer}
        all == {<<>>} \cup {<<a>> : a \in L} \cup {<<a, b>> : a, b \in L}
                 \cup {<<a, b, c>> : a, b, c \in L}
    IN  {ls \in all :
            \A i, j \in DOMAIN ls :
               (i # j /\ ls[i] # UntitledLayer /\ ls[j] # UntitledLayer)
               => ls[i].annotations[FileNameAnnotation]
                     # ls[j].annotations[FileNameAnnotation]}

UpsertFileLayer(layers, fileDesc) ==
    /\ nops < MaxOps
    /\ LET up == upsertFileLayer(layers, fileDesc)
       IN  last' = [op |-> "upsertFileLayer", layers |-> layers,
                    fileDesc |-> fileDesc, updated |-> up.updated,
                    out |-> up.layers]
    /\ nops' = nops + 1
    /\ UNCHANGED <<allTags, manifests, blobs, now, appended, calls, returned,
                   landed>>

\* One upsert after another, each on a list of its own.
NextUpsert ==
    \E layers \in UpsertLayerLists, fileDesc \in UpsertDescs :
       UpsertFileLayer(layers, fileDesc)

SpecUpsert == Init /\ [][NextUpsert]_vars

----------------------------------------------------------------------------
(* The serve command's flags. serveFlags.Validate collects one error per   *)
(* flag it refuses and, for a backend registry given without scheme,       *)
(* defaults it to https and parses it with url.Parse.                      *)

SchemeHttp == <<"h", "t", "t", "p", ":", "/", "/">>

SchemeHttps == <<"h", "t", "t", "p", "s", ":", "/", "/">>

HostExample == SegExample \o <<".">> \o SegCom

HostWithSpace == <<"e", "x", " ">> \o SegCom

BasePath == <<"/", "o", "c", "i">>

\* maven.RepoType, python.RepoType, npm.RepoType.
supportedRepoTypes == <<"maven", "python", "npm">>

\* os.TempDir().
TempDir == "/tmp"

\* A *url.URL: nil, or the fields url.Parse fills.
NilURL == [set |-> FALSE]

URL(scheme, opaque, host, path) ==
    [set |-> TRUE, scheme |-> scheme, opaque |-> opaque, host |-> host,
     path |-> path]

Letters ==
    {"a", "b", "c", "d", "e", "f", "g", "h", "i", "j", "k", "l", "m", "n",
     "o", "p", "q", "r", "s", "t", "u", "v", "w", "x", "y", "z"}

Digits == {"0", "1", "2", "3", "4", "5", "6", "7", "8", "9"}

\* The errors of url.Parse.
ErrMissingScheme == "missing protocol scheme"

ErrColonInFirstSegment == "first path segment in URL cannot contain colon"

ErrInvalidHost == "invalid character in host name"

\* url.getScheme: letters, then digits and + - . after the first character,
\* up to a colon; any other character first means there is no scheme.
RECURSIVE getScheme(_, _)
getScheme(rawURL, i) ==
    LET none == [err |-> ErrNil, scheme |-> EmptyStr, rest |-> rawURL]
    IN  IF i > Len(rawURL) THEN none
        ELSE IF rawURL[i] \in Letters THEN getScheme(rawURL, i + 1)
        ELSE IF rawURL[i] \in Digits \cup {"+", "-", "."}
        THEN IF i = 1 THEN none ELSE getScheme(rawURL, i + 1)
        ELSE IF rawURL[i] = ":"
        THEN IF i = 1
             THEN [err |-> ErrMissingScheme, scheme |-> EmptyStr,
                   rest |-> EmptyStr]
             ELSE [err |-> ErrNil, scheme |-> SubSeq(rawURL, 1, i - 1),
                   rest |-> SubSeq(rawURL, i + 1, Len(rawURL))]
        ELSE none

\* strings.Index(s, "/") + 1, or 0 when s holds no slash.
RECURSIVE IndexSlash(_, _)
IndexSlash(st, i) ==
    IF i > Len(st) THEN 0
    ELSE IF st[i] = "/" THEN i
    ELSE IndexSlash(st, i + 1)

\* url.Parse for a string without fragment, query, user or port: the scheme,
\* then for a rest that starts with // the host up to the next slash, which
\* may hold no space, then the path; a rest without leading slash is opaque
\* under a scheme and a path without one, whose first segment may hold no
\* colon.
parseURL(rawURL) ==
    LET sch == getScheme(rawURL, 1)
        rest == sch.rest
        slash == IndexSlash(rest, 1)
        segment == IF slash = 0 THEN rest ELSE SubSeq(rest, 1, slash - 1)
        after == SubSeq(rest, 3, Len(rest))
        cut == IndexSlash(after, 1)
        authority == IF cut = 0 THEN after ELSE SubSeq(after, 1, cut - 1)
        path == IF cut = 0 THEN EmptyStr ELSE SubSeq(after, cut, Len(after))
        failed(err) == [err |-> err, url |-> NilURL]
    IN  IF sch.err # ErrNil THEN failed(sch.err)
        ELSE IF ~HasPrefix(rest, <<"/">>) /\ sch.scheme # EmptyStr
        THEN [err |-> ErrNil, url |-> URL(sch.scheme, rest, EmptyStr, EmptyStr)]
        ELSE IF ~HasPrefix(rest, <<"/">>)
                /\ \E i \in DOMAIN segment : segment[i] = ":"
        THEN failed(ErrColonInFirstSegment)
        ELSE IF HasPrefix(rest, <<"/", "/">>)
                /\ (sch.scheme # EmptyStr \/ ~HasPrefix(rest, <<"/", "/", "/">>))
        THEN IF \E i \in DOMAIN authority : authority[i] = " "
             THEN failed(ErrInvalidHost)
             ELSE [err |-> ErrNil,
                   url |-> URL(sch.scheme, EmptyStr, authority, path)]
        ELSE [err |-> ErrNil, url |-> URL(sch.scheme, EmptyStr, EmptyStr, rest)]

\* A serveFlags value.
ServeFlags(port, repoType, registryURLStr, landingDir, registryURL) ==
    [port |-> port, repoType |-> repoType, registryURLStr |-> registryURLStr,
     landingDir |-> landingDir, registryURL |-> registryURL]

\* serveFlags.Validate: the errors joined in the order of the checks, <<>>
\* for nil, each error the words of its text; and the flags as the call
\* leaves them. The URL is parsed only inside the branch that defaults the
\* scheme.
Validate(f) ==
    LET portErr == IF f.port = "" THEN <<<<"port", "is", "required">>>>
                   ELSE <<>>
        repoSupported ==
            \E i \in DOMAIN supportedRepoTypes :
               supportedRepoTypes[i] = f.repoType
        repoErr ==
            IF ~repoSupported
            THEN <<<<"repo-type", f.repoType, "is", "not", "supported">>>>
            ELSE <<>>
        registryErr ==
            IF f.registryURLStr = EmptyStr
            THEN <<<<"backend-registry", "is", "required">>>>
            ELSE <<>>
        defaulted == /\ ~HasPrefix(f.registryURLStr, SchemeHttp)
                     /\ ~HasPrefix(f.registryURLStr, SchemeHttps)
        str == IF defaulted THEN SchemeHttps \o f.registryURLStr
               ELSE f.registryURLStr
        parsed == parseURL(str)
        parseErr ==
            IF defaulted /\ parsed.err # ErrNil
            THEN <<<<"failed", "to", "parse", "backend-registry", "URL",
                     parsed.err>>>>
            ELSE <<>>
    IN  [err |-> portErr \o repoErr \o registryErr \o parseErr,
         flags |-> [f EXCEPT
                      !.registryURLStr = str,
                      !.registryURL = IF defaulted /\ parsed.err = ErrNil
                                      THEN parsed.url ELSE @,
                      !.landingDir = IF @ = "" THEN TempDir ELSE @]]

\* The flag values the command is started with: a flag may be left out, the
\* repository type may be one the server does not know, the registry may come
\* with or without scheme, with a base path, or with a host no URL can hold.
Ports == {"", "8080"}

RepoTypes == {"", "maven", "python", "npm", "invalid"}

RegistryURLStrs ==
    {EmptyStr, HostExample, HostExample \o BasePath, HostWithSpace,
     SchemeHttp \o HostExample, SchemeHttps \o HostExample,
     SchemeHttps \o HostExample \o BasePath, SchemeHttp \o HostWithSpace}

LandingDirs == {"", "/var/landing"}

ValidateCall(port, repoType, registryURLStr, landingDir) ==
    /\ nops < MaxOps
    /\ LET f == ServeFlags(port, repoType, registryURLStr, landingDir, NilURL)
           out == Validate(f)
       IN  last' = [op |-> "Validate", flags |-> f, err |-> out.err,
                    out |-> out.flags]
    /\ nops' = nops + 1
    /\ UNCHANGED <<allTags, manifests, blobs, now, appended, calls, returned,
                   landed>>

\* The validation applied to one set of flags after another.
NextFlags ==
    \E port \in Ports, repoType \in RepoTypes, str \in RegistryURLStrs,
       dir \in LandingDirs : ValidateCall(port, repoType, str, dir)

SpecFlags == Init /\ [][NextFlags]_vars

----------------------------------------------------------------------------
(* What the claims speak of.                                               *)

\* The step is a facade call, which last' then describes.
Called == nops' = nops + 1

Issued(io, what) == \E i \in DOMAIN io : io[i] = what

\* The layers of the manifest the tag resolves to, none when it does not.
LayersAt(repo, tag) == manifestLayers(repo, Resolve(repo, tag).desc).layers

\* How many of the layers carry the filename.
TitledCount(layers, name) ==
    Cardinality({i \in DOMAIN layers :
                    Annotation(layers[i], FileNameAnnotation) = name})

----------------------------------------------------------------------------
C2_LayerIdentity ==
    /\ \A repo \in Repos : \A m \in manifests[repo] :
          \A i, j \in DOMAIN m.layers :
             i # j => Annotation(m.layers[i], FileNameAnnotation)
                         # Annotation(m.layers[j], FileNameAnnotation)
    /\ (last.op = "AddFile" /\ last.err = ErrNil)
          => /\ Resolve(last.f.owningRepo, last.f.owningTag).err = ErrNil
             /\ TitledCount(LayersAt(last.f.owningRepo, last.f.owningTag),
                            last.f.name) = 1

\* A successful write into a manifest that holds two files.
C2_Witness ==
    /\ last.op = "AddFile" /\ last.err = ErrNil
    /\ Issued(last.io, "Push")
    /\ Len(LayersAt(last.f.owningRepo, last.f.owningTag)) = 2

(* C3: a successful AddFile(file, B) with no digest assertion, followed at *)
(* once by ReadFile(file), reads successfully, streams exactly B, and      *)
(* returns the manifest and layer descriptors AddFile returned.            *)
C3_RoundTrip ==
    [][(/\ Called
        /\ last.op = "AddFile" /\ last.err = ErrNil /\ last.f.digest = ""
        /\ last'.op = "ReadFile" /\ last'.f = last.f)
       => (/\ last'.err = ErrNil
           /\ last'.stream = <<last.ro>>
           /\ last'.file = last.file
           /\ last'.manifest = last.manifest)]_vars

(* C4: an AddFile under a version tag whose manifest already holds the     *)
(* file's name with another digest succeeds with a descriptor of a         *)
(* different digest; afterwards the manifest holds exactly one layer of    *)
(* that name, carrying the new digest, it has as many layers as before,    *)
(* and ListFiles shows exactly one file of that name under the tag, with   *)
(* the new digest.                                                         *)
C4_Overwrite ==
    [][(Called /\ last'.op = "AddFile" /\ ~IsRefTag(last'.f.owningTag))
       => \A f \in {last'.f} : \A ro \in {last'.ro} :
          \A old \in {LayersAt(f.owningRepo, f.owningTag)} :
             (\E i \in DOMAIN old :
                 /\ Annotation(old[i], FileNameAnnotation) = f.name
                 /\ old[i].digest # SHA256(ro))
             => \A new \in {LayersAt(f.owningRepo, f.owningTag)'} :
                \A listed \in {ListFiles(f.owningRepo)'} :
                   /\ last'.err = ErrNil
                   /\ last'.file.digest = SHA256(ro)
                   /\ last'.file.digest
                         # old[layerNamed(old, f.name, 1)].digest
                   /\ TitledCount(new, f.name) = 1
                   /\ \A i \in DOMAIN new :
                         Annotation(new[i], FileNameAnnotation) = f.name
                         => new[i].digest = SHA256(ro)
                   /\ Len(new) = Len(old)
                   /\ f.owningTag \in DOMAIN listed
                   /\ Cardinality({i \in DOMAIN listed[f.owningTag] :
                                      listed[f.owningTag][i].name = f.name}) = 1
                   /\ \A i \in DOMAIN listed[f.owningTag] :
                         listed[f.owningTag][i].name = f.name
                         => listed[f.owningTag][i].digest = SHA256(ro)]_vars

\* A write that replaced a layer: the store holds an older manifest of the
\* same length whose layer of that name, at the same index, has another
\* digest.
C4_Witness ==
    /\ last.op = "AddFile" /\ last.err = ErrNil
    /\ ~IsRefTag(last.f.owningTag) /\ Issued(last.io, "Push")
    /\ LET cur == LayersAt(last.f.owningRepo, last.f.owningTag)
       IN  /\ Len(cur) = 2
           /\ \E m \in manifests[last.f.owningRepo] : \E i \in DOMAIN cur :
                 /\ Len(m.layers) = Len(cur)
                 /\ cur[i] = last.file
                 /\ Annotation(m.layers[i], FileNameAnnotation) = last.f.name
                 /\ m.layers[i].digest # last.file.digest
                 /\ \A j \in DOMAIN cur : j # i => m.layers[j] = cur[j]

(* C5: a ReadFile through ref_tag = r (no owning_tag), for a ref r that    *)
(* AppendRefs created from the version tag c and a filename present under  *)
(* c, succeeds, as the read through owning_tag = c does, and the two       *)
(* return equal layer descriptors and equal byte streams.                  *)
C5_RefTransparency ==
    (/\ last.op = "ReadFile" /\ last.f.owningTag = EmptyStr
     /\ last.f.refTag \in DOMAIN appended[last.f.owningRepo]
     /\ LET c == appended[last.f.owningRepo][last.f.refTag]
        IN  layerNamed(LayersAt(last.f.owningRepo, c), last.f.name, 1) # 0)
    => LET c == appended[last.f.owningRepo][last.f.refTag]
           byTag == ReadFileOutcome([last.f EXCEPT !.owningTag = c,
                                                   !.refTag = EmptyStr],
                                    ErrNotFound)
       IN  /\ last.err = ErrNil
           /\ byTag.err = ErrNil
           /\ last.file = byTag.file
           /\ last.stream = byTag.stream

(* C6: ListTags returns no string that begins with ref_: it returns        *)
(* exactly the version tags of the repository.                             *)
C6_RefExclusion ==
    last.op = "ListTags"
    => /\ \A t \in last.tags : ~IsRefTag(t)
       /\ last.tags = {t \in DOMAIN allTags[last.f.owningRepo] : ~IsRefTag(t)}

(* C7: AddFile with an owning_tag that begins with ref_ fails with         *)
(* InvalidArgument and issues no disk or backend operation.                *)
C7_RejectRefPrefixWrite ==
    (last.op = "AddFile" /\ IsRefTag(last.f.owningTag))
    => /\ last.err = ErrInvalidArgument
       /\ last.io = <<>>

(* C8: AddFile with a digest assertion that differs from the digest of the *)
(* landed bytes fails with DigestMismatch and leaves every tag resolving   *)
(* as before.                                                              *)
C8_DigestPreconditionOnWrite ==
    [][(/\ Called
        /\ last'.op = "AddFile"
        /\ last'.f.digest # "" /\ last'.f.digest # SHA256(last'.ro))
       => (/\ last'.err = ErrDigestMismatch
           /\ allTags' = allTags)]_vars

(* C9: ReadFile by owning_tag of a stored file fails with DigestMismatch and without a   *)
(* stream when its digest assertion differs from the stored layer's        *)
(* digest, and succeeds when the assertion matches or is empty.            *)
C9_DigestPreconditionOnRead ==
    LET stored == LayersAt(last.f.owningRepo, last.f.owningTag)
        idx == layerNamed(stored, last.f.name, 1)
    IN  (last.op = "ReadFile" /\ last.f.owningTag # EmptyStr /\ idx # 0)
        => IF last.f.digest # "" /\ last.f.digest # stored[idx].digest
           THEN last.err = ErrDigestMismatch /\ last.stream = <<>>
           ELSE last.err = ErrNil

----------------------------------------------------------------------------
\* No file is listed under the tag and every read under it fails with
\* NotFound and without a stream.
Cleared(repo, tag) ==
    /\ tag \notin DOMAIN ListFiles(repo)
    /\ \A name \in Names : \A dg \in CallerDigests :
       \A unresolved \in UnresolvedErrs(tag) :
          LET got == ReadFileOutcome(RepoFile(repo, tag, EmptyStr, name, "", dg),
                                     unresolved)
          IN  got.err = ErrNotFound /\ got.stream = <<>>

(* C11: after a successful DeleteTagFiles(repo, tag) ListFiles(repo) lists  *)
(* no file under the tag and every ReadFile under it fails with NotFound;  *)
(* that stays so in every state where the tag does not resolve, and only a *)
(* successful AddFile under that tag makes it resolve again.               *)
C11_DeleteClearsVersion ==
    [][/\ (Called /\ last'.op = "DeleteTagFiles" /\ last'.err = ErrNil)
          => \A f \in {last'.f} :
                /\ Resolve(f.owningRepo, f.owningTag)'.err = ErrNotFound
                /\ Cleared(f.owningRepo, f.owningTag)'
       /\ \A repo \in Repos : \A tag \in CanonicalTags :
             /\ tag \notin DOMAIN allTags[repo] => Cleared(repo, tag)
             /\ (tag \notin DOMAIN allTags[repo] /\ tag \in DOMAIN allTags'[repo])
                => /\ Called /\ last'.op = "AddFile" /\ last'.err = ErrNil
                   /\ last'.f.owningRepo = repo /\ last'.f.owningTag = tag]_vars

\* The only version of a repository that held a file has been deleted:
\* ListFiles is empty.
C11_Witness ==
    /\ last.op = "DeleteTagFiles" /\ last.err = ErrNil
    /\ Issued(last.io, "Delete")
    /\ blobs[last.f.owningRepo] # {}
    /\ DOMAIN ListFiles(last.f.owningRepo) = {}
    /\ Cleared(last.f.owningRepo, last.f.owningTag)

----------------------------------------------------------------------------
\* The tag a read is to resolve, by the facade's contract: owning_tag when it
\* is set, else ref_ + ref_tag.
EffectiveTag(f) ==
    IF f.owningTag # EmptyStr THEN f.owningTag ELSE RefPrefix \o f.refTag

(* C12: a ReadFile that names a tag (owning_tag or ref_tag) fails with      *)
(* NotFound exactly when its effective tag does not resolve or the         *)
(* manifest it resolves to has no layer titled file.name, and in both      *)
(* cases it returns no stream.                                             *)
C12_ReadNotFound ==
    (/\ last.op = "ReadFile"
     /\ (last.f.owningTag # EmptyStr \/ last.f.refTag # EmptyStr))
    => LET tag == EffectiveTag(last.f)
           absent ==
              \/ Resolve(last.f.owningRepo, tag).err # ErrNil
              \/ layerNamed(LayersAt(last.f.owningRepo, tag), last.f.name, 1) = 0
       IN  /\ (last.err = ErrNotFound) <=> absent
           /\ absent => last.stream = <<>>

(* C13: ReadFile with owning_tag and ref_tag both empty fails with          *)
(* InvalidArgument and issues no backend operation; any other ReadFile     *)
(* returns what resolving its effective tag gives: owning_tag when that is *)
(* set, ref_ + ref_tag only when owning_tag is empty.                      *)
C13_ReadTagSelection ==
    last.op = "ReadFile"
    => IF last.f.owningTag = EmptyStr /\ last.f.refTag = EmptyStr
       THEN last.err = ErrInvalidArgument /\ last.io = <<>>
       ELSE LET want == ReadFileOutcome(
                           [last.f EXCEPT !.owningTag = EffectiveTag(last.f)],
                           ErrNotFound)
            IN  /\ last.err = want.err
                /\ last.manifest = want.manifest
                /\ last.file = want.file
                /\ last.stream = want.stream

----------------------------------------------------------------------------
\* The filenames of the layers.
Titles(layers) ==
    {Annotation(layers[i], FileNameAnnotation) : i \in DOMAIN layers}

\* The step in which the call of process p returns from its last statement.
Finishes(p) == calls[p].pc = "fetched" /\ calls'[p].pc = "idle"

(* C14, as claimed: once an AddFile for a filename has returned success,   *)
(* the tag resolves and its manifest holds a layer of that name, however   *)
(* the calls on the tag overlap.                                           *)
C14_MonotonicLayerSets ==
    \A r \in returned :
       /\ Resolve(r[1], r[2]).err = ErrNil
       /\ r[3] \in Titles(LayersAt(r[1], r[2]))

(* C14, amended: a call that pushes leaves the tag on a manifest whose     *)
(* filenames are those of the manifest the call resolved plus its own; and *)
(* when the tag still resolves to the manifest the call resolved (no other *)
(* call pushed in between), the tag's manifest holds afterwards every      *)
(* filename it held before and the call's own.                             *)
C14_MonotonicWithoutOverlap ==
    [][\A p \in Procs : \A c \in {calls[p]} :
       Finishes(p)
       => \A before \in {LayersAt(c.f.owningRepo, c.f.owningTag)} :
          \A after \in {LayersAt(c.f.owningRepo, c.f.owningTag)'} :
             /\ last'.err = ErrNil
             /\ Issued(last'.io, "Push")
                => Titles(after) = Titles(c.layers) \cup {c.f.name}
             /\ Resolve(c.f.owningRepo, c.f.owningTag).desc = c.manifestDesc
                => Titles(after) = Titles(before) \cup {c.f.name}]_vars

\* Two calls for two filenames have returned and the tag's manifest holds
\* both.
C14_Witness ==
    /\ InFlight = {} /\ nops = 2 /\ last.op = "AddFile" /\ last.err = ErrNil
    /\ Cardinality({r[3] : r \in returned}) = 2
    /\ \A r \in returned : r[3] \in Titles(LayersAt(r[1], r[2]))

(* C15: no step of AddFile takes a lock, so a call may push after another  *)
(* call on the same tag has pushed a filename that the first had not read: *)
(* whenever such a call has a layer to push, it returns success too, and   *)
(* the manifest it leaves under the tag holds its own file and not the     *)
(* other call's.                                                           *)
C15_LastPushWins ==
    [][\A p \in Procs : \A c \in {calls[p]} : \A r \in returned :
       (/\ Finishes(p)
        /\ r[1] = c.f.owningRepo /\ r[2] = c.f.owningTag
        /\ r[3] # c.f.name
        /\ r[3] \in Titles(LayersAt(c.f.owningRepo, c.f.owningTag))
        /\ r[3] \notin Titles(c.layers)
        /\ upsertFileLayer(c.layers, c.fileDesc).updated)
       => \A after \in {LayersAt(c.f.owningRepo, c.f.owningTag)'} :
             /\ last'.op = "AddFile" /\ last'.err = ErrNil
             /\ c.f.name \in Titles(after)
             /\ r[3] \notin Titles(after)]_vars

\* Two calls only were made, for two filenames of one tag; both returned
\* success and the tag's manifest holds one file.
C15_Witness ==
    /\ InFlight = {} /\ nops = 2 /\ last.op = "AddFile" /\ last.err = ErrNil
    /\ \E r1, r2 \in returned :
          /\ r1[1] = r2[1] /\ r1[2] = r2[2] /\ r1[3] # r2[3]
          /\ Titles(LayersAt(r1[1], r1[2])) = {r1[3]}

----------------------------------------------------------------------------
(* C16: an AddFile that returns an error leaves every tag resolving as it  *)
(* did before the call (or still unresolved); and an AddFile that moves a  *)
(* tag returns success, moves its owning tag only, and moves it to a       *)
(* manifest whose layers are the upsert of the descriptor computed from    *)
(* the landed bytes into the layers the tag held.                          *)
C16_PushIsCommitPoint ==
    [][(Called /\ last'.op = "AddFile")
       => \A f \in {last'.f} : \A ro \in {last'.ro} :
          \A before \in {LayersAt(f.owningRepo, f.owningTag)} :
             /\ last'.err # ErrNil => allTags' = allTags
             /\ allTags' # allTags
                => /\ last'.err = ErrNil
                   /\ \A t \in DOMAIN allTags[f.owningRepo] \ {f.owningTag} :
                         Resolve(f.owningRepo, t)' = Resolve(f.owningRepo, t)
                   /\ LayersAt(f.owningRepo, f.owningTag)'
                         = upsertFileLayer(before, loadFile(f, ro)).layers]_vars

\* A call that failed while Copy was pushing to a tag that already resolved:
\* the new manifest is in the store and the tag is where it was.
C16_Witness ==
    /\ last.op = "AddFile" /\ last.err # ErrNil
    /\ Issued(last.io, "CopyTag")
    /\ Resolve(last.f.owningRepo, last.f.owningTag).err = ErrNil
    /\ \E m \in manifests[last.f.owningRepo] :
          /\ ManifestDigest(m) # allTags[last.f.owningRepo][last.f.owningTag]
          /\ \E i \in DOMAIN m.layers : m.layers[i] = loadFile(last.f, last.ro)
          /\ \A i \in DOMAIN LayersAt(last.f.owningRepo, last.f.owningTag) :
                LayersAt(last.f.owningRepo, last.f.owningTag)[i]
                   # loadFile(last.f, last.ro)

(* C17: whenever AddFile has returned, with success or with any error, no  *)
(* scratch file of the call is left in the landing directory.              *)
C17_ScratchFileRemoved ==
    last.op = "AddFile" => landed = {}

----------------------------------------------------------------------------
\* The table of the contract: extension, media type.
MediaTypeTable ==
    {<<<<".", "t", "x", "t">>, "text/plain">>,
     <<<<".", "h", "t", "m", "l">>, "text/html">>,
     <<<<".", "x", "m", "l">>, "application/xml">>,
     <<<<".", "j", "s", "o", "n">>, "application/json">>,
     <<<<".", "t", "a", "r">>, "application/x-tar">>,
     <<<<".", "g", "z">>, "application/x-gzip">>,
     <<<<".", "t", "g", "z">>, "application/x-gzip">>,
     <<<<".", "z", "i", "p">>, "application/zip">>}

\* The name ends with the extension: an extension of the table holds one dot
\* and no separator, so it is then the last extension of the name.
EndsWith(name, ext) ==
    Len(name) >= Len(ext)
    /\ SubSeq(name, Len(name) - Len(ext) + 1, Len(name)) = ext

(* C18: the detected media type is the file's media_type when that is not  *)
(* empty, whatever the filename; else the table's entry for the last       *)
(* extension of the filename; else application/octet-stream.               *)
C18_MediaTypeDetection ==
    last.op = "detectFileMediaType"
    => LET got == last.file.mediaType
           hits == {e \in MediaTypeTable : EndsWith(last.f.name, e[1])}
       IN  IF last.f.mediaType # "" THEN got = last.f.mediaType
           ELSE IF hits # {} THEN \A e \in hits : got = e[2]
           ELSE got = "application/octet-stream"

\* A name with two extensions and no hint: the last one decides.
C18_Witness ==
    /\ last.op = "detectFileMediaType"
    /\ last.f.name = <<"a", "r", "c", "h", "i", "v", "e", ".", "t", "a", "r", ".", "g", "z">>
    /\ last.f.mediaType = ""
    /\ last.file.mediaType = "application/x-gzip"

----------------------------------------------------------------------------
\* The typed responses of the error, the error itself before what it wraps.
RECURSIVE ResponsesIn(_)
ResponsesIn(err) ==
    IF err.kind = "resp" THEN <<err>>
    ELSE IF err.kind # "wrap" THEN <<>>
    ELSE IF Len(err.inner) = 1 THEN ResponsesIn(err.inner[1])
    ELSE ResponsesIn(err.inner[1]) \o ResponsesIn(Wrap(Tail(err.inner)))

(* C19, as claimed: HasCode(err, code) is true exactly when some typed      *)
(* response in the error chain of err has the status code.                 *)
C19_StatusClassifier ==
    last.op = "HasCode"
    => (last.result
        <=> \E i \in DOMAIN ResponsesIn(last.arg) :
               ResponsesIn(last.arg)[i].status = last.code)

(* C19, amended: HasCode(err, code) is true exactly when the error chain   *)
(* holds a typed response and the first one met (the error itself before   *)
(* what it wraps, wrapped errors in order) has the status code. So it is   *)
(* false for nil, for a chain without a typed response, also one whose     *)
(* text embeds a response's text, and for a different status; and for a    *)
(* chain with one typed response it is true exactly when that response has *)
(* the status code.                                                        *)
C19_FirstResponseDecides ==
    last.op = "HasCode"
    => LET rs == ResponsesIn(last.arg)
       IN  /\ last.result <=> (rs # <<>> /\ rs[1].status = last.code)
           /\ rs = <<>> => ~last.result
           /\ Len(rs) = 1
              => (last.result <=> rs[1].status = last.code)

\* A response with the asked status, wrapped twice: true.
C19_Witness ==
    /\ last.op = "HasCode" /\ last.result
    /\ last.arg.kind = "wrap"
    /\ last.arg.inner[1].kind = "wrap"
    /\ Len(ResponsesIn(last.arg)) = 1

----------------------------------------------------------------------------
\* How many tag writes the call issued.
TagsIssued(io) == Cardinality({k \in DOMAIN io : io[k] = "Tag"})

(* C20: AppendRefs(repo, c, r1..rn) on a c that does not resolve fails and *)
(* creates no ref; on a c that resolves it tags c's manifest under ref_ +  *)
(* ri in argument order: with success every ri resolves to c's manifest;   *)
(* when tagging ri fails the call returns an error, r1..r(i-1) resolve to  *)
(* c's manifest and stay, and no ref after ri is created or moved.         *)
C20_AppendRefsPartialSuccess ==
    [][(Called /\ last'.op = "AppendRefs")
       => \A f \in {last'.f} : \A refs \in {last'.refs} :
          \A c \in {Resolve(f.owningRepo, f.owningTag)} :
          \A i \in {TagsIssued(last'.io)} :
             IF c.err # ErrNil
             THEN last'.err # ErrNil /\ allTags' = allTags
             ELSE IF last'.err = ErrNil
             THEN /\ i = Len(refs)
                  /\ \A j \in DOMAIN refs :
                        Resolve(f.owningRepo, RefPrefix \o refs[j])' = c
             ELSE /\ i \in DOMAIN refs
                  /\ \A j \in 1..(i - 1) :
                        Resolve(f.owningRepo, RefPrefix \o refs[j])' = c
                  /\ \A j \in (i + 1)..Len(refs) :
                        (\A k \in 1..i : refs[k] # refs[j])
                        => Resolve(f.owningRepo, RefPrefix \o refs[j])'
                              = Resolve(f.owningRepo, RefPrefix \o refs[j])]_vars

\* The call failed at its second ref: the first resolves to the version's
\* manifest, the second does not resolve.
C20_Witness ==
    /\ last.op = "AppendRefs" /\ last.err # ErrNil
    /\ Len(last.refs) = 2 /\ TagsIssued(last.io) = 2
    /\ Resolve(last.f.owningRepo, RefPrefix \o last.refs[1])
          = Resolve(last.f.owningRepo, last.f.owningTag)
    /\ Resolve(last.f.owningRepo, last.f.owningTag).err = ErrNil
    /\ Resolve(last.f.owningRepo, RefPrefix \o last.refs[2]).err = ErrNotFound

----------------------------------------------------------------------------
\* The indices of the layers that carry the filename annotation.
TitledIdx(layers) ==
    {i \in DOMAIN layers : FileNameAnnotation \in DOMAIN layers[i].annotations}

(* C21: ListFiles(repo) succeeds and returns, for each tag of the           *)
(* repository that does not begin with ref_ and for no other tag, exactly   *)
(* one RepoFile per layer of the tag's manifest that carries the            *)
(* ocifactory.file.title annotation, in layer order, with the repository,   *)
(* the tag, the layer's filename and the layer's digest; a layer without    *)
(* the annotation gives no entry and stops nothing; no entry is owned by a  *)
(* ref_ tag.                                                                *)
C21_ListFilesEnumeration ==
    [][(Called /\ last'.op = "ListFiles")
       => \A repo \in {last'.f.owningRepo} : \A listed \in {last'.files} :
          /\ last'.err = ErrNil
          /\ allTags' = allTags
          /\ DOMAIN listed = {t \in DOMAIN allTags[repo] : ~IsRefTag(t)}
          /\ \A t \in DOMAIN listed :
                LET layers == LayersAt(repo, t)
                    rank(i) == Cardinality({j \in TitledIdx(layers) : j <= i})
                IN  /\ Len(listed[t]) = Cardinality(TitledIdx(layers))
                    /\ \A i \in TitledIdx(layers) :
                          listed[t][rank(i)] =
                             RepoFile(repo, t, EmptyStr,
                                      layers[i].annotations[FileNameAnnotation],
                                      "", layers[i].digest)
                    /\ \A k \in DOMAIN listed[t] :
                          ~IsRefTag(listed[t][k].owningTag)]_vars

\* A listing of a repository that holds an alias and a version whose
\* manifest has a layer without filename before a layer with one: the
\* version is listed with the one file.
C21_Witness ==
    /\ last.op = "ListFiles"
    /\ last.files = ListFiles(last.f.owningRepo)
    /\ \E t \in DOMAIN allTags[last.f.owningRepo] : IsRefTag(t)
    /\ \E t \in DOMAIN last.files :
          /\ Len(LayersAt(last.f.owningRepo, t)) = 2
          /\ LayersAt(last.f.owningRepo, t)[1] = UntitledLayer
          /\ Len(last.files[t]) = 1

----------------------------------------------------------------------------
----------------------------------------------------------------------------
\* The values bound in the context under the carrier's key, oldest first.
BoundCreds(ctx) ==
    LET RECURSIVE from(_)
        from(i) ==
            IF i > Len(ctx) THEN <<>>
            ELSE IF ctx[i][1] = credKey THEN <<ctx[i][2]>> \o from(i + 1)
            ELSE from(i + 1)
    IN  from(1)

\* The context carries a credential: the newest value under the key is a
\* Cred.
CarriesCred(ctx) ==
    BoundCreds(ctx) # <<>>
    /\ BoundCreds(ctx)[Len(BoundCreds(ctx))].type = "*cred.Cred"

\* The (user, password) a client sends to the registry host, <<>> for none.
SentTo(client, host) ==
    IF client.anonymous \/ client.registry # host THEN <<>>
    ELSE <<client.username, client.password>>

\* The (user, password) of the basic credential the context carries.
BasicOf(ctx) ==
    LET c == BoundCreds(ctx)[Len(BoundCreds(ctx))]
    IN  IF CarriesCred(ctx) /\ c.basic.set
        THEN <<c.basic.user, c.basic.password>> ELSE <<>>

(* C23: the backend handle of a request sends the registry host exactly the *)
(* basic credential its own context carries and is anonymous when the       *)
(* context carries none: no value under the key, a value of another type    *)
(* (for both FromContext returns nil, false) or a Cred without Basic; and   *)
(* of two requests in flight whose contexts carry different credentials,    *)
(* neither handle sends the credential of the other.                        *)
C23_RequestScopedCredentials ==
    \A p \in Procs :
       calls[p].pc = "backend"
       => /\ SentTo(calls[p].client, BaseURLHost) = BasicOf(calls[p].ctx)
          /\ calls[p].client.anonymous <=> BasicOf(calls[p].ctx) = <<>>
          /\ ~CarriesCred(calls[p].ctx)
             => calls[p].from = [cred |-> NilValue, ok |-> FALSE]
          /\ \A q \in Procs \ {p} :
                (/\ calls[q].pc # "idle"
                 /\ BasicOf(calls[q].ctx) # <<>>
                 /\ BasicOf(calls[q].ctx) # BasicOf(calls[p].ctx))
                => SentTo(calls[p].client, BaseURLHost) # BasicOf(calls[q].ctx)

\* Two requests in flight hold their handles: one with a credential, one
\* with a value of another type under the key, which is anonymous.
C23_Witness ==
    \E p, q \in Procs :
       /\ calls[p].pc = "backend" /\ calls[q].pc = "backend"
       /\ SentTo(calls[p].client, BaseURLHost) = <<"user", "password">>
       /\ BoundCreds(calls[q].ctx) # <<>>
       /\ ~CarriesCred(calls[q].ctx)
       /\ calls[q].client.anonymous

----------------------------------------------------------------------------
\* Every error of the chain: the error and all it wraps.
RECURSIVE ErrorsIn(_)
ErrorsIn(err) ==
    {err} \cup (IF err.kind = "wrap"
                THEN UNION {ErrorsIn(err.inner[i]) : i \in DOMAIN err.inner}
                ELSE {})

\* The registry error is NotFound.
IsNotFound(err) == ErrNotFoundValue \in ErrorsIn(err)

\* The statuses 401 and 403 of the typed responses the error chain carries.
CarriedAuthStatuses(err) ==
    {ResponsesIn(err)[i].status : i \in DOMAIN ResponsesIn(err)}
    \cap {StatusUnauthorized, StatusForbidden}

\* The request succeeded: the registry returned no error and, for a GET, the
\* stream was copied to the response.
Succeeded(call) ==
    call.err = NilError
    /\ (call.op = "handleGet" /\ call.method = "GET") => call.copy = "ok"

\* The answer to a successful request.
AnswersSuccess(call) ==
    IF call.op = "handlePut" THEN call.response.status = StatusCreated
    ELSE /\ call.response.status = StatusOK
         /\ call.response.headers["Content-Length"] = call.file.size
         /\ call.response.headers["X-Checksum-Sha256"] = call.file.digest
         /\ call.response.body = IF call.method = "HEAD" THEN <<>> ELSE call.stream

----------------------------------------------------------------------------
\* The segments from the first to the last given, put together with slashes.
SlashJoined(segs, to) ==
    LET RECURSIVE upTo(_)
        upTo(k) == IF k = 0 THEN <<>>
                   ELSE IF k = 1 THEN segs[1]
                   ELSE upTo(k - 1) \o <<"/">> \o segs[k]
    IN  upTo(to)

\* The segment holds the text somewhere.
Holds(seg, text) ==
    \E i \in 1..(Len(seg) - Len(text) + 1) :
       SubSeq(seg, i, i + Len(text) - 1) = text

(* C25: pathToRepoFile maps the path archetype-catalog.xml to (archetype,   *)
(* latest); it fails for every other path of fewer than 3 segments; it      *)
(* maps a path that ends in maven-metadata.xml and whose parent segment     *)
(* holds -SNAPSHOT to (the segments before the parent, parent + -metadata), *)
(* any other path that ends in maven-metadata.xml to (the segments before   *)
(* the filename, metadata), any other path of at least 4 segments to (the   *)
(* segments before the last two, the second-to-last segment) with the last  *)
(* segment as the filename; and it fails for every other path of fewer than *)
(* 4 segments.                                                              *)
C25_MavenPathMapping ==
    last.op = "pathToRepoFile"
    => LET segs == last.segs
           n == Len(segs)
           maps(repo, tag, name) ==
              /\ last.err = ErrNil
              /\ last.file.owningRepo = repo
              /\ last.file.owningTag = tag
              /\ last.file.name = name
       IN  IF segs = <<ArchetypeCatalogXml>>
           THEN maps(RepoArchetype, TagLatest, ArchetypeCatalogXml)
           ELSE IF n < 3 THEN last.err # ErrNil
           ELSE IF segs[n] = MavenMetadataXml
           THEN IF Holds(segs[n - 1], SnapshotMark)
                THEN maps(SlashJoined(segs, n - 2),
                          segs[n - 1] \o MetadataSuffix, MavenMetadataXml)
                ELSE maps(SlashJoined(segs, n - 1), TagMetadata,
                          MavenMetadataXml)
           ELSE IF n >= 4
           THEN maps(SlashJoined(segs, n - 2), segs[n - 1], segs[n])
           ELSE last.err # ErrNil

\* The metadata of a snapshot version below group and artifact.
C25_Witness ==
    /\ last.op = "pathToRepoFile"
    /\ last.segs = <<SegCom, SegExample, SegProject, SegSnapshot,
                     MavenMetadataXml>>
    /\ last.err = ErrNil
    /\ last.file.owningRepo = Join(<<SegCom, SegExample, SegProject>>)
    /\ last.file.owningTag = SegSnapshot \o MetadataSuffix

----------------------------------------------------------------------------
\* The layers of the list that carry the title of the descriptor.
SameTitle(layers, d) ==
    {i \in DOMAIN layers :
        /\ FileNameAnnotation \in DOMAIN layers[i].annotations
        /\ layers[i].annotations[FileNameAnnotation]
              = d.annotations[FileNameAnnotation]}

(* C26: for a layer list with unique titles and a descriptor d,             *)
(* upsertFileLayer returns (false, the list as it was) when a layer has     *)
(* d's title and d's digest; (true, the list with that one layer replaced   *)
(* by d, every other layer and the length as they were) when a layer has    *)
(* d's title and another digest; (true, the list with d appended at the     *)
(* end) when no layer has d's title.                                        *)
C26_UpsertCases ==
    last.op = "upsertFileLayer"
    => LET layers == last.layers
           d == last.fileDesc
           same == SameTitle(layers, d)
       IN  IF \E i \in same : layers[i].digest = d.digest
           THEN ~last.updated /\ last.out = layers
           ELSE IF same # {}
           THEN /\ last.updated
                /\ Len(last.out) = Len(layers)
                /\ \A i \in DOMAIN layers :
                      last.out[i] = IF i \in same THEN d ELSE layers[i]
           ELSE /\ last.updated
                /\ Len(last.out) = Len(layers) + 1
                /\ last.out[Len(last.out)] = d
                /\ \A i \in DOMAIN layers : last.out[i] = layers[i]

\* The middle one of three layers is replaced: a layer without filename
\* before it and a layer of another filename after it stay.
C26_Witness ==
    /\ last.op = "upsertFileLayer" /\ last.updated
    /\ Len(last.layers) = 3 /\ Len(last.out) = 3
    /\ last.layers[1] = UntitledLayer
    /\ SameTitle(last.layers, last.fileDesc) = {2}
    /\ last.out[2] = last.fileDesc /\ last.layers[2] # last.fileDesc
    /\ last.out[3] = last.layers[3]

----------------------------------------------------------------------------
\* The filename of a layer, <<>> for a layer without one.
TitleOf(l) == Annotation(l, FileNameAnnotation)

(* C27: a successful AddFile for filename n on a tag leaves every layer of  *)
(* the tag's manifest at its index: a layer of another filename, or of      *)
(* none, keeps its whole descriptor (digest, size, media type,              *)
(* annotations); a layer named n stays where it is, replaced or not; and a  *)
(* filename the manifest did not hold goes last. So across AddFile calls a  *)
(* layer keeps the index at which its filename was first appended.          *)
C27_StableLayerOrder ==
    [][(Called /\ last'.op = "AddFile" /\ last'.err = ErrNil)
       => \A f \in {last'.f} :
          \A old \in {LayersAt(f.owningRepo, f.owningTag)} :
          \A new \in {LayersAt(f.owningRepo, f.owningTag)'} :
             /\ \A i \in DOMAIN old :
                   /\ i \in DOMAIN new
                   /\ TitleOf(new[i]) = TitleOf(old[i])
                   /\ TitleOf(old[i]) # f.name => new[i] = old[i]
             /\ IF f.name \in Titles(old) THEN Len(new) = Len(old)
                ELSE /\ Len(new) = Len(old) + 1
                     /\ TitleOf(new[Len(new)]) = f.name]_vars

\* The second of three layers has been replaced: the store holds the
\* manifest before it, with the same layer without filename first and the
\* same other file last.
C27_Witness ==
    /\ last.op = "AddFile" /\ last.err = ErrNil /\ Issued(last.io, "Push")
    /\ LET cur == LayersAt(last.f.owningRepo, last.f.owningTag)
       IN  /\ Len(cur) = 3
           /\ cur[1] = UntitledLayer
           /\ cur[2] = last.file
           /\ \E m \in manifests[last.f.owningRepo] :
                 /\ Len(m.layers) = 3
                 /\ m.layers[1] = cur[1] /\ m.layers[3] = cur[3]
                 /\ TitleOf(m.layers[2]) = last.f.name
                 /\ m.layers[2].digest # cur[2].digest

----------------------------------------------------------------------------
\* The backend still holds the alias of r.
AliasKept(repo, r) == (RefPrefix \o r) \in DOMAIN allTags[repo]

\* Every read through ref_tag = r fails with NotFound and without a stream.
RefReadsNotFound(repo, r) ==
    \A name \in Names : \A dg \in CallerDigests :
    \A unresolved \in UnresolvedErrs(EmptyStr) :
       LET got == ReadFileOutcome(RepoFile(repo, EmptyStr, r, name, "", dg),
                                  unresolved)
       IN  got.err = ErrNotFound /\ got.stream = <<>>

\* Neither the tag listing nor the file listing shows the alias of r.
AliasUnlisted(repo, r) ==
    /\ (RefPrefix \o r) \notin ListTagsOutcome(repo)
    /\ (RefPrefix \o r) \notin DOMAIN ListFiles(repo)

(* C28: when a successful DeleteTagFiles(repo, c) deletes the version an   *)
(* alias r was appended from, the backend keeps the alias (it is not swept *)
(* with the version), every ReadFile through ref_tag = r fails with        *)
(* NotFound and returns no data, and no listing shows the alias: the       *)
(* failing read is the only way to observe it.                             *)
C28_DanglingRefs ==
    [][(Called /\ last'.op = "DeleteTagFiles" /\ last'.err = ErrNil)
       => \A f \in {last'.f} : \A r \in RefNames :
             (/\ r \in DOMAIN appended[f.owningRepo]
              /\ appended[f.owningRepo][r] = f.owningTag
              /\ AliasKept(f.owningRepo, r))
             => /\ AliasKept(f.owningRepo, r)'
                /\ RefReadsNotFound(f.owningRepo, r)'
                /\ AliasUnlisted(f.owningRepo, r)']_vars

----------------------------------------------------------------------------
\* The tag resolves in the next state to the manifest digest and the layer
\* list it resolves to now.
ResolvesAsBefore(repo, tag) ==
    /\ Resolve(repo, tag)' = Resolve(repo, tag)
    /\ LayersAt(repo, tag)' = LayersAt(repo, tag)

(* C29: an AddFile, AppendRefs or DeleteTagFiles applied to (repo, tag)    *)
(* leaves every other version tag of repo, and every tag of every other    *)
(* repository, resolving to the manifest digest and the layer list it      *)
(* resolved to before the call.                                            *)
C29_VersionIsolation ==
    [][(Called /\ last'.op \in {"AddFile", "AppendRefs", "DeleteTagFiles"})
       => \A f \in {last'.f} :
             /\ \A tag \in CanonicalTags \ {f.owningTag} :
                   ResolvesAsBefore(f.owningRepo, tag)
             /\ \A repo \in AllRepos \ {f.owningRepo} :
                \A tag \in OwningTags : ResolvesAsBefore(repo, tag)]_vars

----------------------------------------------------------------------------
\* The backend-registry value with the scheme it is to be parsed with.
WithScheme(value) ==
    IF HasPrefix(value, SchemeHttp) \/ HasPrefix(value, SchemeHttps)
    THEN value ELSE SchemeHttps \o value

\* One of the joined errors names the flag.
NamesFlag(err, flag) ==
    \E i \in DOMAIN err : \E k \in DOMAIN err[i] : err[i][k] = flag

(* C30: when serveFlags.Validate returns no error, registryURL is not nil  *)
(* and is the parse of the backend-registry value, as given when it starts *)
(* with http:// or https:// and with https:// put before it otherwise; and *)
(* the error Validate returns names port when the port is missing,         *)
(* repo-type when the repository type is missing or not supported, and     *)
(* backend-registry when the registry is missing.                          *)
C30_ServeFlagValidation ==
    last.op = "Validate"
    => /\ last.err = <<>>
          => /\ last.out.registryURL # NilURL
             /\ last.out.registryURL
                   = parseURL(WithScheme(last.flags.registryURLStr)).url
       /\ last.flags.port = "" => NamesFlag(last.err, "port")
       /\ last.flags.repoType \notin {"maven", "python", "npm"}
          => NamesFlag(last.err, "repo-type")
       /\ last.flags.registryURLStr = EmptyStr
          => NamesFlag(last.err, "backend-registry")

====
